---- MODULE Spec2Model ----
(***************************************************************************)
(* Skill extraction, indexing and matching engine of the job-posting       *)
(* dashboard (hackathon/core).  Texts are sequences of word tokens, the    *)
(* form a text has after tokenisation; weights and similarities are        *)
(* fixed-point integers (idf in tenths, similarities in hundredths).       *)
(***************************************************************************)
EXTENDS Integers, Sequences, FiniteSets, TLC

VARIABLES
    jobs_clean,      \* find_matching_jobs: posting table, the sequence of its system_job_id
    skill_profiles,  \* profile rows [system_job_id, skill_text]
    matching_index,  \* app.py matching_index: None or (vectorizer, matrix, job_ids)
    user_input,      \* query text
    top_n,           \* requested number of results
    tie_rank,        \* how this build's argsort orders equal keys
    pc,              \* position of the caller: start, indexed, done, raised
    results          \* rows [system_job_id, match_score] returned by find_matching_jobs

VARIABLES
    current_profiles, \* version of the profile collection load_data now returns
    index_heap,       \* the index objects built so far, by handle
    resource_cache,   \* st.cache_resource of load_matching_index: profile version -> handle
    session,          \* per session: the profiles and index of its last script run
    calls             \* per session: the find_matching_jobs call in progress

VARIABLES
    postings,        \* extract_skill_mentions_from_text: rows [system_job_id, description,
                     \* requirements_min_education]
    processed,       \* taxonomy feed rows [research_id, taxonomy_skill, correlation]
    top_k,           \* mentions kept per posting
    min_similarity,  \* threshold, in hundredths
    batch_size,      \* postings per similarity batch
    xpc,             \* start, done, or the error raised: ValueError, KeyError
    mentions         \* rows [research_id, taxonomy_skill, nlp_score]

mvars == <<skill_profiles, matching_index, user_input, top_n, pc, results>>
cvars == <<current_profiles, index_heap, resource_cache, session, calls>>

VARIABLES
    raw_jobs,           \* data/raw/colorado.csv: the posting rows
    requirements_file,  \* data/processed/nlp_requirements_profile.csv
    mentions_file,      \* data/processed/nlp_skill_mentions.csv
    profiles_file,      \* data/processed/nlp_skill_profiles.csv
    lpc,                \* idle, done, raised: the last load_data run
    loaded              \* what the last load_data run returned

lvars == <<raw_jobs, requirements_file, mentions_file, profiles_file, lpc, loaded>>

VARIABLES
    upc,                 \* start, done: the call of one function of the core
    arg_min_frequency,   \* build_skill_catalog: min_frequency
    arg_max_skills,      \* build_skill_catalog: max_skills
    catalog,             \* build_skill_catalog: the labels returned
    built_profiles,      \* build_skill_profiles_from_mentions: rows returned
    arg_job_id,          \* compute_skill_gap: job_id
    limit,               \* compute_skill_gap: skills considered
    skill_gap,           \* compute_skill_gap: [matched, missing]
    inferred,            \* infer_education_and_experience: rows returned
    arg_value,           \* _normalize_text: the string given
    normal_forms         \* _normalize_text: the strings returned, once and twice

uvars == <<upc, arg_min_frequency, arg_max_skills, catalog, built_profiles, arg_job_id,
           limit, skill_gap, inferred, arg_value, normal_forms>>

VARIABLES
    sqlite_db,           \* usage_analytics.db: whether it exists, the rows of analytics_events
    csv_file,            \* usage_analytics_events.csv: whether it exists, the rows under the header
    apc                  \* how the last call of the analytics logger ended
avars == <<sqlite_db, csv_file, apc>>
xvars == <<postings, processed, top_k, min_similarity, batch_size, xpc, mentions>>

vars == <<jobs_clean, tie_rank, mvars, cvars, xvars, lvars, uvars, avars>>

(***************************************************************************)
(* Bounds                                                                  *)
(***************************************************************************)
MaxPostings == 2
MaxTopN == 3
MaxSessions == 2
MaxTopK == 2
MaxBatch == 2

\* widest array a sort of the model orders
RankWidth == IF MaxPostings > 3 THEN MaxPostings ELSE 3

PostingIds == 1..MaxPostings

\* word tokens; a token of StopWords is an English stop word
Words == {1, 2, 3}
StopWords == {0}

\* profile texts: skills joined by blanks
ProfileTexts == {<<1>>, <<2>>, <<1, 2>>, <<0>>}
\* query texts: the empty string, in- and out-of-vocabulary words
QueryTexts == {<<>>, <<1>>, <<2, 1>>, <<1, 2>>, <<3>>, <<0, 2>>}

None == [is_none |-> TRUE, raised |-> FALSE]

(***************************************************************************)
(* Helpers                                                                 *)
(***************************************************************************)
Range(s) == {s[i] : i \in DOMAIN s}

Injective(s) == \A i, j \in DOMAIN s : s[i] = s[j] => i = j

Perms(n) == {p \in [1..n -> 1..n] : Injective(p)}

Min(a, b) == IF a <= b THEN a ELSE b

RECURSIVE SortedSeq(_)
SortedSeq(S) ==
    IF S = {} THEN <<>>
    ELSE LET m == CHOOSE x \in S : \A y \in S : x <= y
         IN <<m>> \o SortedSeq(S \ {m})

RECURSIVE SumOver(_, _)
SumOver(S, f) ==
    IF S = {} THEN 0
    ELSE LET x == CHOOSE y \in S : TRUE IN f[x] + SumOver(S \ {x}, f)

RECURSIVE IsqrtBetween(_, _, _)
IsqrtBetween(n, lo, hi) ==
    IF lo >= hi THEN lo
    ELSE LET mid == (lo + hi + 1) \div 2
         IN IF mid * mid <= n THEN IsqrtBetween(n, mid, hi)
            ELSE IsqrtBetween(n, lo, mid - 1)

\* floor of the square root
Isqrt(n) == IsqrtBetween(n, 0, Min(n, 46340))

\* 10 * ln(k), k = 1..12
LnX10 == <<0, 7, 11, 14, 16, 18, 19, 21, 22, 23, 24, 25>>

(***************************************************************************)
(* TfidfVectorizer(stop_words="english", ngram_range=(1, 2))               *)
(***************************************************************************)
RECURSIVE DropStopWords(_)
DropStopWords(text) ==
    IF text = <<>> THEN <<>>
    ELSE IF Head(text) \in StopWords THEN DropStopWords(Tail(text))
    ELSE <<Head(text)>> \o DropStopWords(Tail(text))

\* the analyzer: word 1-grams then 2-grams of the text without its stop words
Ngrams(text) ==
    LET t == DropStopWords(text)
    IN IF Len(t) < 2 THEN [i \in 1..Len(t) |-> <<t[i]>>]
       ELSE [i \in 1..Len(t) |-> <<t[i]>>] \o [i \in 1..(Len(t) - 1) |-> <<t[i], t[i + 1]>>]

Features(text) == Range(Ngrams(text))

Tf(f, text) == Cardinality({i \in DOMAIN Ngrams(text) : Ngrams(text)[i] = f})

Df(f, texts) == Cardinality({d \in DOMAIN texts : f \in Features(texts[d])})

\* smooth idf, ln((1 + n) / (1 + df)) + 1, in tenths
Idf(f, texts) == LnX10[1 + Len(texts)] - LnX10[1 + Df(f, texts)] + 10

ValueError == [raised |-> TRUE, error |-> "ValueError"]

\* a column that the frame does not have is indexed
KeyError == [raised |-> TRUE, error |-> "KeyError"]

\* fit_transform: the vocabulary, its idf weights and the tf*idf rows (the rows'
\* l2 norm is applied where they are compared, in CosineSimilarity)
FitTransform(texts) ==
    LET voc == UNION {Features(texts[d]) : d \in DOMAIN texts}
    IN IF voc = {} THEN ValueError
       ELSE [raised |-> FALSE,
             vocabulary |-> voc,
             idf |-> [f \in voc |-> Idf(f, texts)],
             matrix |-> [d \in DOMAIN texts |->
                            [f \in voc |-> Tf(f, texts[d]) * Idf(f, texts)]]]

\* transform([text]): terms outside the fitted vocabulary carry no weight
Transform(vectorizer, text) ==
    [f \in vectorizer.vocabulary |-> Tf(f, text) * vectorizer.idf[f]]

Dot(u, v) == SumOver(DOMAIN u, [f \in DOMAIN u |-> u[f] * v[f]])

\* cosine similarity in hundredths; a zero vector has similarity 0 to everything
Cosine(u, v) ==
    LET nu == Dot(u, u)
        nv == Dot(v, v)
    IN IF nu = 0 \/ nv = 0 THEN 0
       ELSE (100 * Dot(u, v)) \div Isqrt(nu * nv)

CosineSimilarity(user_vector, matrix) ==
    [d \in DOMAIN matrix |-> Cosine(user_vector, matrix[d])]

(***************************************************************************)
(* numpy argsort / pandas sort_values with the default kind (quicksort):   *)
(* the order of equal keys is the build's, given by tie_rank               *)
(***************************************************************************)
Argsort(a, rank) ==
    CHOOSE p \in Perms(Len(a)) :
        \A i, j \in 1..Len(a) :
            i < j => \/ a[p[i]] < a[p[j]]
                     \/ a[p[i]] = a[p[j]] /\ rank[p[i]] < rank[p[j]]

Reverse(s) == [i \in 1..Len(s) |-> s[Len(s) + 1 - i]]

\* s[:n], the slice a ranking that keeps the wrong end would take
LastN_WrongEnd(s, n) == [i \in 1..Min(n, Len(s)) |-> s[i]]

\* s[-n:] for n >= 0 (s[-0:] is all of s)
LastN(s, n) ==
    IF n = 0 \/ n >= Len(s) THEN s
    ELSE [i \in 1..n |-> s[Len(s) - n + i]]

\* s.head(n)
FirstN(s, n) == [i \in 1..Min(n, Len(s)) |-> s[i]]

RECURSIVE FilterRows(_, _)
FilterRows(rows, keep) ==
    IF rows = <<>> THEN <<>>
    ELSE IF Head(rows) \in keep THEN <<Head(rows)>> \o FilterRows(Tail(rows), keep)
    ELSE FilterRows(Tail(rows), keep)

\* sort_values(column, ascending=False)
SortValuesDesc(rows, rank) ==
    LET p == Argsort([i \in 1..Len(rows) |-> 0 - rows[i].match_score], rank)
    IN [i \in 1..Len(rows) |-> rows[p[i]]]

(***************************************************************************)
(* hackathon/core/matching.py                                              *)
(***************************************************************************)
build_matching_index(profiles) ==
    LET fitted == FitTransform([d \in DOMAIN profiles |-> profiles[d].skill_text])
    IN IF fitted.raised THEN ValueError
       ELSE [raised |-> FALSE,
             vectorizer |-> [vocabulary |-> fitted.vocabulary, idf |-> fitted.idf],
             matrix |-> fitted.matrix,
             job_ids |-> [d \in DOMAIN profiles |-> profiles[d].system_job_id]]

\* lines 35-43: the rows returned for the similarities of the query
RankRows(similarities, jobs, n, job_ids, rank) ==
    LET top_indices == Reverse(LastN(Argsort(similarities, rank), n))
        top_ids == [i \in DOMAIN top_indices |-> job_ids[top_indices[i]]]
        top_scores == [i \in DOMAIN top_indices |-> similarities[top_indices[i]]]
        \* dict(zip(top_ids, top_scores)): the last pair of an id wins
        score_map == [id \in Range(top_ids) |->
                         top_scores[CHOOSE i \in DOMAIN top_ids :
                                       /\ top_ids[i] = id
                                       /\ \A j \in DOMAIN top_ids : top_ids[j] = id => j <= i]]
        kept == FilterRows(jobs, Range(top_ids))
        scored == [i \in DOMAIN kept |->
                      [system_job_id |-> kept[i], match_score |-> score_map[kept[i]]]]
    IN FirstN(SortValuesDesc(scored, rank), n)

\* lines 32-43, with the index unpacked
RankJobs(text, jobs, n, vectorizer, matrix, job_ids, rank) ==
    RankRows(CosineSimilarity(Transform(vectorizer, text), matrix), jobs, n, job_ids, rank)

\* find_matching_jobs with a guard that rejects a blank query
find_matching_jobs_RejectsBlank(text, jobs, profiles, n, index, rank) ==
    IF profiles = <<>> THEN [raised |-> FALSE, rows |-> <<>>]
    ELSE LET used == IF index = None THEN build_matching_index(profiles) ELSE index
         IN IF used.raised \/ text = <<>> THEN ValueError
            ELSE [raised |-> FALSE,
                  rows |-> RankJobs(text, jobs, n, used.vectorizer, used.matrix,
                                    used.job_ids, rank)]

\* the index is built from the profiles whether or not one is passed
find_matching_jobs_Rebuilds(text, jobs, profiles, n, index, rank) ==
    IF profiles = <<>> THEN [raised |-> FALSE, rows |-> <<>>]
    ELSE LET used == build_matching_index(profiles)
         IN IF used.raised THEN ValueError
            ELSE [raised |-> FALSE,
                  rows |-> RankJobs(text, jobs, n, used.vectorizer, used.matrix,
                                    used.job_ids, rank)]

find_matching_jobs(text, jobs, profiles, n, index, rank) ==
    IF profiles = <<>> THEN [raised |-> FALSE, rows |-> <<>>]
    ELSE LET used == IF index = None THEN build_matching_index(profiles) ELSE index
         IN IF used.raised THEN ValueError
            ELSE [raised |-> FALSE,
                  rows |-> RankJobs(text, jobs, n, used.vectorizer, used.matrix,
                                    used.job_ids, rank)]

(***************************************************************************)
(* One caller: app.py builds the index once, then queries                  *)
(***************************************************************************)
\* profile tables as build_skill_profiles_from_mentions groups them: one row per
\* posting id, in id order
ProfileTables ==
    UNION {[ids -> ProfileTexts] : ids \in SUBSET PostingIds}

ProfileRows(t) ==
    LET ids == SortedSeq(DOMAIN t)
    IN [i \in DOMAIN ids |-> [system_job_id |-> ids[i], skill_text |-> t[ids[i]]]]

JobTables ==
    UNION {{s \in [1..n -> PostingIds] : Injective(s)} : n \in 0..MaxPostings}

MatchIdle ==
    /\ skill_profiles = <<>>
    /\ matching_index = None
    /\ user_input = <<>>
    /\ top_n = 0
    /\ pc = "start"
    /\ results = <<>>

ConcIdle ==
    /\ current_profiles = 1
    /\ index_heap = <<>>
    /\ resource_cache = <<>>
    /\ session = <<>>
    /\ calls = <<>>

ExtractIdle ==
    /\ postings = <<>>
    /\ processed = <<>>
    /\ top_k = 0
    /\ min_similarity = 0
    /\ batch_size = 0
    /\ xpc = "start"
    /\ mentions = <<>>

UnitIdle ==
    /\ upc = "start"
    /\ arg_min_frequency = 0
    /\ arg_max_skills = 0
    /\ catalog = <<>>
    /\ built_profiles = <<>>
    /\ arg_job_id = 0
    /\ limit = 0
    /\ skill_gap = [matched |-> <<>>, missing |-> <<>>]
    /\ inferred = <<>>
    /\ arg_value = <<>>
    /\ normal_forms = <<>>

NoFile == [exists |-> FALSE]

NothingLoaded == [jobs_clean |-> <<>>, skill_profiles |-> <<>>, nlp_mentions |-> <<>>]

\* no analytics artifact exists and the logger was not called
AnalyticsIdle ==
    /\ sqlite_db = [exists |-> FALSE, rows |-> <<>>]
    /\ csv_file = [exists |-> FALSE, rows |-> <<>>]
    /\ apc = "idle"

LoadIdle ==
    /\ raw_jobs = <<>>
    /\ requirements_file = NoFile
    /\ mentions_file = NoFile
    /\ profiles_file = NoFile
    /\ lpc = "idle"
    /\ loaded = NothingLoaded

InitMatch ==
    /\ AnalyticsIdle
    /\ ConcIdle /\ ExtractIdle /\ LoadIdle /\ UnitIdle
    /\ jobs_clean \in JobTables
    /\ skill_profiles \in {ProfileRows(t) : t \in ProfileTables}
    /\ matching_index = None
    /\ user_input \in QueryTexts
    /\ top_n \in 0..MaxTopN
    /\ tie_rank \in Perms(RankWidth)
    /\ pc = "start"
    /\ results = <<>>

\* app.py: matching_index = load_matching_index(skill_profiles)
LoadMatchingIndex ==
    /\ pc = "start"
    /\ LET built == build_matching_index(skill_profiles)
       IN IF built.raised
          THEN /\ pc' = "raised"
               /\ UNCHANGED matching_index
          ELSE /\ pc' = "indexed"
               /\ matching_index' = built
    /\ UNCHANGED <<jobs_clean, skill_profiles, user_input, top_n, tie_rank, results, cvars, xvars, lvars, uvars, avars>>

\* find_matching_jobs(user_input, jobs_clean, skill_profiles, top_n, matching_index)
FindMatchingJobs ==
    /\ pc \in {"start", "indexed"}
    /\ LET out == find_matching_jobs(user_input, jobs_clean, skill_profiles, top_n,
                                     matching_index, tie_rank)
       IN IF out.raised
          THEN /\ pc' = "raised"
               /\ UNCHANGED results
          ELSE /\ pc' = "done"
               /\ results' = out.rows
    /\ UNCHANGED <<jobs_clean, skill_profiles, matching_index, user_input, top_n, tie_rank, cvars, xvars, lvars, uvars, avars>>

NextMatch == LoadMatchingIndex \/ FindMatchingJobs

SpecMatch == InitMatch /\ [][NextMatch]_vars

(***************************************************************************)
(* One call of find_matching_jobs with an index built beforehand            *)
(***************************************************************************)
\* the profile collections an index was built from: a profile for every posting
IndexedProfiles == {ProfileRows(t) : t \in [PostingIds -> {<<1>>, <<1, 2>>}]}

\* the index passed was built by build_matching_index from some collection of
\* profiles; the collection passed with it is any collection
InitPrebuilt ==
    /\ AnalyticsIdle
    /\ ConcIdle /\ ExtractIdle /\ LoadIdle /\ UnitIdle
    /\ jobs_clean \in {[i \in 1..MaxPostings |-> i], [i \in 1..MaxPostings |-> MaxPostings + 1 - i]}
    /\ skill_profiles \in {ProfileRows(t) : t \in ProfileTables}
    /\ matching_index \in {build_matching_index(profiles) : profiles \in IndexedProfiles}
    /\ user_input \in QueryTexts
    /\ top_n \in {1, MaxTopN}
    /\ tie_rank = [i \in 1..RankWidth |-> i]
    /\ pc = "indexed"
    /\ results = <<>>

NextPrebuilt == FindMatchingJobs

SpecPrebuilt == InitPrebuilt /\ [][NextPrebuilt]_vars

(***************************************************************************)
(* hackathon/core/nlp_pipeline.py: catalog and mention extraction          *)
(***************************************************************************)
\* str.lower() of a word: 11 and 12 are the words 1 and 2 with capitals, 18 is
\* the word 8 with capitals, 13 is the token 14 with a capital
Lower(t) == IF t = 11 THEN 1 ELSE IF t = 12 THEN 2 ELSE IF t = 18 THEN 8
            ELSE IF t = 13 THEN 14 ELSE t

\* token 10 is a run of blanks
Blank == 10

\* the words of a split token keep their capitals
NormalizeToken_SplitOnly(t) == IF t \in {9, Blank} THEN <<>>
                               ELSE IF t = 13 THEN <<11, 2>>
                               ELSE IF t = 14 THEN <<1, 2>> ELSE <<Lower(t)>>

\* raw tokens of a text: 11 and 12 are the words 1 and 2 written with
\* capitals, 9 is a token of punctuation only, 14 is the words 1 and 2 joined
\* by a punctuation mark and 13 is the same with a capital
NormalizeToken(t) == IF t \in {9, Blank} THEN <<>>
                     ELSE IF t \in {13, 14} THEN <<1, 2>> ELSE <<Lower(t)>>

\* _normalize_text on a tokenised string: lower case, punctuation to blanks,
\* blanks collapsed and trimmed
RECURSIVE normalize_text(_)
normalize_text(raw) ==
    IF raw = <<>> THEN <<>>
    ELSE NormalizeToken(Head(raw)) \o normalize_text(Tail(raw))

\* characters of a word: word 3 is a two-letter word
WordLen(w) == IF w = 3 THEN 2 ELSE IF w = 0 THEN 3 ELSE 5

\* str.len() of a normalised text: its words and the blanks between them
RECURSIVE StrLen(_)
StrLen(text) ==
    IF text = <<>> THEN 0
    ELSE IF Len(text) = 1 THEN WordLen(text[1])
    ELSE WordLen(Head(text)) + 1 + StrLen(Tail(text))

RECURSIVE SelectRows(_, _)
SelectRows(rows, keep) ==
    IF rows = <<>> THEN <<>>
    ELSE IF Head(rows) \in keep THEN <<Head(rows)>> \o SelectRows(Tail(rows), keep)
    ELSE SelectRows(Tail(rows), keep)

\* the distinct values of a sequence in order of first occurrence
RECURSIVE Unique(_)
Unique(s) ==
    IF s = <<>> THEN <<>>
    ELSE LET rest == Unique([i \in 1..(Len(s) - 1) |-> s[i]])
         IN IF s[Len(s)] \in Range(rest) THEN rest ELSE Append(rest, s[Len(s)])

Count(s, x) == Cardinality({i \in DOMAIN s : s[i] = x})

\* build_skill_catalog without the filter on the length of a label
build_skill_catalog_KeepsShort(feed, min_frequency, max_skills, rank) ==
    IF feed # <<>> /\ "taxonomy_skill" \notin DOMAIN feed[1] THEN <<>>
    ELSE
    LET labels == Unique([i \in DOMAIN feed |-> normalize_text(feed[i].taxonomy_skill)])
    IN FirstN(SelectRows(labels,
                  {l \in Range(labels) :
                      Count([i \in DOMAIN feed |-> normalize_text(feed[i].taxonomy_skill)], l)
                          >= min_frequency}),
              max_skills)

\* build_skill_catalog(processed, min_frequency, max_skills)
build_skill_catalog(feed, min_frequency, max_skills, rank) ==
    IF feed # <<>> /\ "taxonomy_skill" \notin DOMAIN feed[1] THEN <<>>
    ELSE
    LET normalized == [i \in DOMAIN feed |-> normalize_text(feed[i].taxonomy_skill)]
        long == SelectRows(normalized, {l \in Range(normalized) : StrLen(l) > 2})
        labels == Unique(long)
        \* value_counts(): descending counts
        order == Argsort([i \in DOMAIN labels |-> 0 - Count(long, labels[i])], rank)
        counted == [i \in DOMAIN labels |-> labels[order[i]]]
        common == SelectRows(counted, {l \in Range(counted) : Count(long, l) >= min_frequency})
    IN FirstN(common, max_skills)

DefaultMinFrequency == 3
DefaultMaxSkills == 3000

RECURSIVE Flatten(_)
Flatten(ss) == IF ss = <<>> THEN <<>> ELSE Head(ss) \o Flatten(Tail(ss))

\* the columns of a table are the fields of its rows
HasColumn(rows, column) == rows # <<>> /\ column \in DOMAIN rows[1]

\* the text in a column of a row, the empty text when the column is absent
Col(row, column) == IF column \in DOMAIN row THEN row[column] ELSE <<>>

\* TEXT_COLUMNS, those that carry words
TEXT_COLUMNS == <<"title", "description", "requirements_min_education",
                  "requirements_experience">>

\* build_job_text_corpus: the available text columns of a posting joined and
\* normalised
build_job_text_corpus(jobs) ==
    [i \in DOMAIN jobs |->
        normalize_text(Flatten([c \in DOMAIN TEXT_COLUMNS |-> Col(jobs[i], TEXT_COLUMNS[c])]))]

\* sublinear_tf: 1 + ln(tf), in tenths
SublinearTf(tf) == IF tf = 0 THEN 0 ELSE 10 + LnX10[tf]

\* TfidfVectorizer(stop_words="english", ngram_range=(1, 2), min_df=2,
\* max_df=0.95, sublinear_tf=True).fit_transform(texts)
FitTransformPruned(texts) ==
    LET all == UNION {Features(texts[d]) : d \in DOMAIN texts}
        n_doc == Len(texts)
        voc == {f \in all : Df(f, texts) >= 2 /\ 100 * Df(f, texts) <= 95 * n_doc}
    IN IF all = {} THEN ValueError
       ELSE IF 95 * n_doc < 200 THEN ValueError
       ELSE IF voc = {} THEN ValueError
       ELSE [raised |-> FALSE,
             vocabulary |-> voc,
             matrix |-> [d \in DOMAIN texts |->
                            [f \in voc |-> (SublinearTf(Tf(f, texts[d])) * Idf(f, texts)) \div 10]]]

\* scores >= min_similarity
KeepMask_NonZero(scores, threshold) == {i \in DOMAIN scores : scores[i] > 0}

\* line 106: keep_mask = scores >= min_similarity
KeepMask(scores, threshold) == {i \in DOMAIN scores : scores[i] >= threshold}

\* np.argsort(scores), the minus sign forgotten
DescendingOrder_Ascending(scores, rank) == Argsort(scores, rank)

\* line 118: order = np.argsort(-scores)
DescendingOrder(scores, rank) == Argsort([i \in DOMAIN scores |-> 0 - scores[i]], rank)

\* np.argpartition(scores, top_k - 1)[:top_k]: the positions of the lowest scores
ArgpartitionTop_Lowest(scores, k, rank) == FirstN(DescendingOrder_Ascending(scores, rank), k)

\* line 114: np.argpartition(-scores, top_k - 1)[:top_k], some arrangement of
\* the positions of the top_k highest scores
ArgpartitionTop(scores, k, rank) == FirstN(DescendingOrder(scores, rank), k)

Pick(s, positions) == [i \in DOMAIN positions |-> s[positions[i]]]

\* lines 99-126 for one row of the similarity batch: data and indices of the
\* sparse row, the records appended for it
RowRecords(job_id, data, indices, skill_labels, k, threshold, rank) ==
    IF Len(data) = 0 THEN <<>>
    ELSE LET mask == KeepMask(data, threshold)
         IN IF mask = {} THEN <<>>
            ELSE LET kept == SortedSeq(mask)
                     scores1 == Pick(data, kept)
                     indices1 == Pick(indices, kept)
                     top_idx == IF Len(scores1) > k THEN ArgpartitionTop(scores1, k, rank)
                                ELSE [i \in DOMAIN scores1 |-> i]
                     scores2 == Pick(scores1, top_idx)
                     indices2 == Pick(indices1, top_idx)
                     order == DescendingOrder(scores2, rank)
                 IN [i \in DOMAIN order |->
                        [research_id |-> job_id,
                         taxonomy_skill |-> skill_labels[indices2[order[i]]],
                         nlp_score |-> scores2[order[i]]]]

\* row of job_matrix @ skill_matrix.T as a sparse row: an entry for every skill
\* that shares a term with the posting
SparseRow(job_vector, skill_matrix) ==
    LET indices == SortedSeq({k \in DOMAIN skill_matrix : Dot(job_vector, skill_matrix[k]) > 0})
    IN [indices |-> indices,
        data |-> [i \in DOMAIN indices |-> Cosine(job_vector, skill_matrix[indices[i]])]]

\* _iter_batches that yields the full batches only
iter_batches_FullOnly(start, total_size, size) ==
    [b \in 1..(total_size \div size) |->
        [start |-> start + (b - 1) * size, end |-> start + b * size]]

\* _iter_batches(total_size, batch_size)
RECURSIVE iter_batches(_, _, _)
iter_batches(start, total_size, size) ==
    IF start >= total_size THEN <<>>
    ELSE <<[start |-> start, end |-> Min(start + size, total_size)]>>
         \o iter_batches(start + size, total_size, size)

\* lines 95-126 for one batch
BatchRecords(batch, jobs, job_matrix, skill_matrix, skill_catalog, k, threshold, rank) ==
    Flatten([local_row \in 1..(batch.end - batch.start) |->
        RowRecords(jobs[batch.start + local_row].system_job_id,
                   SparseRow(job_matrix[batch.start + local_row], skill_matrix).data,
                   SparseRow(job_matrix[batch.start + local_row], skill_matrix).indices,
                   skill_catalog, k, threshold, rank)])

\* lines 87-129: the rows of the fitted matrix split into postings and skills,
\* the records of all batches in turn
MentionsOfMatrix(matrix, jobs, skill_catalog, k, threshold, size, rank) ==
    Flatten([b \in DOMAIN iter_batches(0, Len(jobs), size) |->
        BatchRecords(iter_batches(0, Len(jobs), size)[b], jobs,
                     [d \in 1..Len(jobs) |-> matrix[d]],
                     [d \in 1..Len(skill_catalog) |-> matrix[Len(jobs) + d]],
                     skill_catalog, k, threshold, rank)])

MentionsOfFitted(fitted, jobs, skill_catalog, k, threshold, size, rank) ==
    IF fitted.raised THEN ValueError
    \* line 92: job_ids = jobs_clean["system_job_id"]
    ELSE IF ~HasColumn(jobs, "system_job_id") THEN KeyError
    ELSE [raised |-> FALSE,
          rows |-> MentionsOfMatrix(fitted.matrix, jobs, skill_catalog, k, threshold, size, rank)]

\* lines 75-129: the extraction proper, for postings and a catalog
ExtractWithCatalog(jobs, skill_catalog, k, threshold, size, rank) ==
    MentionsOfFitted(FitTransformPruned(build_job_text_corpus(jobs) \o skill_catalog),
                     jobs, skill_catalog, k, threshold, size, rank)

\* lines 68-73: the two early returns
GuardedExtract(jobs, skill_catalog, k, threshold, size, rank) ==
    IF jobs = <<>> THEN [raised |-> FALSE, rows |-> <<>>]
    ELSE IF skill_catalog = <<>> THEN [raised |-> FALSE, rows |-> <<>>]
    ELSE ExtractWithCatalog(jobs, skill_catalog, k, threshold, size, rank)

\* the extraction without the two early returns
extract_skill_mentions_from_text_Unguarded(jobs, feed, k, threshold, size, rank) ==
    ExtractWithCatalog(jobs, build_skill_catalog(feed, DefaultMinFrequency, DefaultMaxSkills, rank),
                       k, threshold, size, rank)

extract_skill_mentions_from_text(jobs, feed, k, threshold, size, rank) ==
    GuardedExtract(jobs, build_skill_catalog(feed, DefaultMinFrequency, DefaultMaxSkills, rank),
                   k, threshold, size, rank)

(***************************************************************************)
(* One call of extract_skill_mentions_from_text                            *)
(***************************************************************************)
PostingTexts == {<<1, 2>>, <<2, 1>>, <<11, 9, 3>>, <<0>>}

PostingTables ==
    {ProfileRows(t) : t \in UNION {[ids -> PostingTexts] : ids \in SUBSET PostingIds}}

PostingRows(table) ==
    [i \in DOMAIN table |-> [system_job_id |-> table[i].system_job_id,
                             description |-> table[i].skill_text,
                             requirements_min_education |-> <<>>]]

\* count rows of the feed carrying the label, for the postings in turn
FeedRows(label, count) ==
    [i \in 1..count |-> [research_id |-> 1 + (i % MaxPostings),
                         taxonomy_skill |-> label,
                         correlation |-> 50 + i]]

TaxonomyFeeds ==
    {<<>>,
     FeedRows(<<1>>, 3),
     FeedRows(<<11>>, 2) \o FeedRows(<<2>>, 3) \o FeedRows(<<1>>, 2),
     FeedRows(<<1>>, 3) \o FeedRows(<<12>>, 3) \o FeedRows(<<1, 2>>, 3),
     FeedRows(<<3>>, 4) \o FeedRows(<<2>>, 2),
     \* a feed without the "Taxonomy Skill" column
     [i \in 1..3 |-> [research_id |-> 1, correlation |-> 50 + i]]}

SimilarityThresholds == {8, 75}

\* posting tables of other shapes: a set of columns is absent
WithoutColumns(rows, columns) ==
    [i \in DOMAIN rows |-> [c \in (DOMAIN rows[i]) \ columns |-> rows[i][c]]]

AbsentColumns == {{"system_job_id"}, {"description", "requirements_min_education"},
                  {"requirements_min_education"}}

ShapedPostings ==
    {WithoutColumns(PostingRows(t), columns) :
        t \in {u \in PostingTables : \A i \in DOMAIN u : u[i].skill_text = <<1, 2>>},
        columns \in AbsentColumns}

InitExtract ==
    /\ AnalyticsIdle
    /\ MatchIdle /\ ConcIdle /\ LoadIdle /\ UnitIdle
    /\ jobs_clean = <<>>
    /\ tie_rank \in {[i \in 1..RankWidth |-> i], [i \in 1..RankWidth |-> RankWidth + 1 - i]}
    /\ postings \in {PostingRows(t) : t \in PostingTables} \cup ShapedPostings
    /\ processed \in TaxonomyFeeds
    /\ top_k \in 1..MaxTopK
    /\ min_similarity \in SimilarityThresholds
    /\ batch_size \in 1..MaxBatch
    /\ xpc = "start"
    /\ mentions = <<>>

ExtractSkillMentions ==
    /\ xpc = "start"
    /\ LET out == extract_skill_mentions_from_text(postings, processed, top_k,
                                                   min_similarity, batch_size, tie_rank)
       IN IF out.raised
          THEN /\ xpc' = out.error
               /\ UNCHANGED mentions
          ELSE /\ xpc' = "done"
               /\ mentions' = out.rows
    /\ UNCHANGED <<postings, processed, top_k, min_similarity, batch_size>>
    /\ UNCHANGED <<jobs_clean, tie_rank, mvars, cvars, lvars, uvars, avars>>

NextExtract == ExtractSkillMentions

SpecExtract == InitExtract /\ [][NextExtract]_vars

(***************************************************************************)
(* One call of build_skill_catalog                                         *)
(***************************************************************************)
MaxMinFrequency == 4
MaxMaxSkills == 3

CatalogFeeds ==
    TaxonomyFeeds \cup
    {FeedRows(<<1>>, 3) \o FeedRows(<<3>>, 4) \o FeedRows(<<12, 9>>, 2) \o FeedRows(<<2, 3>>, 1),
     FeedRows(<<1, 2>>, 2) \o FeedRows(<<>>, 3) \o FeedRows(<<9>>, 3) \o FeedRows(<<2>>, 2)}

InitCatalog ==
    /\ AnalyticsIdle
    /\ MatchIdle /\ ConcIdle /\ LoadIdle
    /\ postings = <<>> /\ mentions = <<>> /\ xpc = "start"
    /\ top_k = 0 /\ min_similarity = 0 /\ batch_size = 0
    /\ jobs_clean = <<>>
    /\ tie_rank \in Perms(RankWidth)
    /\ processed \in CatalogFeeds
    /\ upc = "start"
    /\ arg_min_frequency \in 0..MaxMinFrequency
    /\ arg_max_skills \in 0..MaxMaxSkills
    /\ catalog = <<>>
    /\ built_profiles = <<>>
    /\ arg_job_id = 0
    /\ limit = 0
    /\ skill_gap = [matched |-> <<>>, missing |-> <<>>]
    /\ inferred = <<>>
    /\ arg_value = <<>>
    /\ normal_forms = <<>>

BuildSkillCatalog ==
    /\ upc = "start"
    /\ upc' = "done"
    /\ catalog' = build_skill_catalog(processed, arg_min_frequency, arg_max_skills, tie_rank)
    /\ UNCHANGED <<arg_min_frequency, arg_max_skills, built_profiles, arg_job_id, limit,
                   skill_gap, inferred, arg_value, normal_forms>>
    /\ UNCHANGED <<jobs_clean, tie_rank, mvars, cvars, xvars, lvars, avars>>

NextCatalog == BuildSkillCatalog

SpecCatalog == InitCatalog /\ [][NextCatalog]_vars

(***************************************************************************)
(* hackathon/core/nlp_pipeline.py: profiles and requirements               *)
(***************************************************************************)
\* sort_values(["Research ID", "NLP Score"]) with both columns ascending
SortedByIdAndScore_Ascending(rows) ==
    LET Before(i, j) ==
            \/ rows[i].research_id < rows[j].research_id
            \/ /\ rows[i].research_id = rows[j].research_id
               /\ rows[i].nlp_score < rows[j].nlp_score
            \/ /\ rows[i].research_id = rows[j].research_id
               /\ rows[i].nlp_score = rows[j].nlp_score
               /\ i < j
        Place(i) == 1 + Cardinality({j \in DOMAIN rows : Before(j, i)})
    IN [n \in DOMAIN rows |-> CHOOSE i \in DOMAIN rows : Place(i) = n]

\* positions of rows in the order of sort_values(["Research ID", "NLP Score"],
\* ascending=[True, False]); a sort on several columns keeps equal rows in
\* their order
SortedByIdAndScore(rows) ==
    LET Before(i, j) ==
            \/ rows[i].research_id < rows[j].research_id
            \/ /\ rows[i].research_id = rows[j].research_id
               /\ rows[i].nlp_score > rows[j].nlp_score
            \/ /\ rows[i].research_id = rows[j].research_id
               /\ rows[i].nlp_score = rows[j].nlp_score
               /\ i < j
        Place(i) == 1 + Cardinality({j \in DOMAIN rows : Before(j, i)})
    IN [n \in DOMAIN rows |-> CHOOSE i \in DOMAIN rows : Place(i) = n]

\* drop_duplicates(subset=key columns): the first row of every key is kept
\* every row is kept
DropDuplicates_KeepsAll(rows, keys) == rows

\* (keys[i] is the value of the key columns in row i)
DropDuplicates(rows, keys) ==
    LET firsts == {i \in DOMAIN rows : \A j \in 1..(i - 1) : keys[j] # keys[i]}
        kept == SortedSeq(firsts)
    IN [n \in DOMAIN kept |-> rows[kept[n]]]

MentionKey(m) == <<m.research_id, m.taxonomy_skill>>

build_skill_profiles_from_mentions(rows) ==
    IF rows = <<>> THEN <<>>
    ELSE LET order == SortedByIdAndScore(rows)
             ordered == [i \in DOMAIN rows |-> rows[order[i]]]
             deduped == DropDuplicates(ordered, [i \in DOMAIN ordered |-> MentionKey(ordered[i])])
             ids == SortedSeq({deduped[i].research_id : i \in DOMAIN deduped})
             Skills(id) == SelectRows(deduped, {m \in Range(deduped) : m.research_id = id})
         IN [g \in DOMAIN ids |->
                [system_job_id |-> ids[g],
                 skill_text |-> Flatten([i \in DOMAIN Skills(ids[g]) |->
                                            Skills(ids[g])[i].taxonomy_skill])]]

\* str.strip(): the blanks at both ends removed
RECURSIVE Strip(_)
Strip(text) ==
    IF text = <<>> THEN <<>>
    ELSE IF Head(text) = Blank THEN Strip(Tail(text))
    ELSE IF text[Len(text)] = Blank THEN Strip([i \in 1..(Len(text) - 1) |-> text[i]])
    ELSE text

\* token 8 is one of the words nan, none, null
NullSentinels == {<<8>>}

\* the stripped text is returned as it is
normalize_existing_requirement_KeepsSentinel(value) == Strip(value)

\* str.lower() of a text
LowerText(text) == [i \in DOMAIN text |-> Lower(text[i])]

_normalize_existing_requirement(value) ==
    IF Strip(value) = <<>> \/ LowerText(Strip(value)) \in NullSentinels
    THEN <<>>
    ELSE Strip(value)

\* EDUCATION_PATTERNS: the words of each pattern, in the order of the list
\* (a word token 21..26 per pattern; a label is the one-token text 121..126)
EDUCATION_PATTERNS ==
    <<[words |-> {21}, label |-> <<121>>],
      [words |-> {22}, label |-> <<122>>],
      [words |-> {23}, label |-> <<123>>],
      [words |-> {24}, label |-> <<124>>],
      [words |-> {25}, label |-> <<125>>],
      [words |-> {26}, label |-> <<126>>]>>

\* the label of the pattern whose word comes first in the text
infer_education_from_text_FirstInText(text) ==
    LET at == {i \in DOMAIN text : \E k \in DOMAIN EDUCATION_PATTERNS :
                                      text[i] \in EDUCATION_PATTERNS[k].words}
        first == CHOOSE i \in at : \A j \in at : i <= j
    IN IF at = {} THEN <<>>
       ELSE EDUCATION_PATTERNS[CHOOSE k \in DOMAIN EDUCATION_PATTERNS :
                                  text[first] \in EDUCATION_PATTERNS[k].words].label

_infer_education_from_text(text) ==
    LET hits == {k \in DOMAIN EDUCATION_PATTERNS :
                    Range(text) \cap EDUCATION_PATTERNS[k].words # {}}
    IN IF hits = {} THEN <<>>
       ELSE EDUCATION_PATTERNS[CHOOSE k \in hits : \A m \in hits : k <= m].label

\* ENTRY_LEVEL_PATTERN: token 31 is a phrase it matches; the text returned is
\* the one-token text 131
EntryLevelPhrases == {31}

\* EXPERIENCE_PATTERNS: tokens 32 ("3-5 years") and 33 ("2 yrs") are phrases
\* the pattern matches; the text built from the match is 132 ("3-5 years"),
\* 133 ("2 years")
ExperiencePhrases == {32, 33}

_infer_experience_from_text(text) ==
    IF Range(text) \cap EntryLevelPhrases # {} THEN <<131>>
    ELSE LET hits == {i \in DOMAIN text : text[i] \in ExperiencePhrases}
         IN IF hits = {} THEN <<>>
            ELSE <<100 + text[CHOOSE i \in hits : \A j \in hits : i <= j]>>

\* lines 232-236: "dataset", "nlp_inferred" or "not_specified"
SourceOf(raw, display) ==
    IF raw # <<>> THEN "dataset" ELSE IF display # <<>> THEN "nlp_inferred" ELSE "not_specified"

\* the text is searched before the structured value is looked at
RequirementRow_TextFirst(id, source_text, raw_education, raw_experience) ==
    [system_job_id |-> id,
     education_display |-> IF _infer_education_from_text(source_text) # <<>>
                           THEN _infer_education_from_text(source_text) ELSE raw_education,
     education_source |-> SourceOf(raw_education, _infer_education_from_text(source_text)),
     experience_display |-> IF _infer_experience_from_text(source_text) # <<>>
                            THEN _infer_experience_from_text(source_text) ELSE raw_experience,
     experience_source |-> SourceOf(raw_experience, _infer_experience_from_text(source_text))]

\* lines 224-246 for one row
RequirementRow(id, source_text, raw_education, raw_experience) ==
    [system_job_id |-> id,
     education_display |-> IF raw_education # <<>> THEN raw_education
                           ELSE _infer_education_from_text(source_text),
     education_source |-> SourceOf(raw_education, _infer_education_from_text(source_text)),
     experience_display |-> IF raw_experience # <<>> THEN raw_experience
                            ELSE _infer_experience_from_text(source_text),
     experience_source |-> SourceOf(raw_experience, _infer_experience_from_text(source_text))]

\* infer_education_and_experience: a column that is absent reads as ""
infer_education_and_experience(jobs) ==
    [i \in DOMAIN jobs |->
        RequirementRow(Col(jobs[i], "system_job_id"),
                       Col(jobs[i], "title") \o Col(jobs[i], "description"),
                       _normalize_existing_requirement(Col(jobs[i], "requirements_min_education")),
                       _normalize_existing_requirement(Col(jobs[i], "requirements_experience")))]

(***************************************************************************)
(* One call of build_skill_profiles_from_mentions                          *)
(***************************************************************************)
MaxMentions == 3

MentionRows ==
    [research_id : PostingIds, taxonomy_skill : {<<1>>, <<2>>, <<1, 2>>}, nlp_score : {50, 70}]

MentionTables == UNION {[1..n -> MentionRows] : n \in 0..MaxMentions}

InitProfiles ==
    /\ AnalyticsIdle
    /\ MatchIdle /\ ConcIdle /\ LoadIdle
    /\ postings = <<>> /\ processed = <<>> /\ xpc = "start"
    /\ top_k = 0 /\ min_similarity = 0 /\ batch_size = 0
    /\ jobs_clean = <<>>
    /\ tie_rank = [i \in 1..RankWidth |-> i]
    /\ mentions \in MentionTables
    /\ upc = "start"
    /\ arg_min_frequency = 0
    /\ arg_max_skills = 0
    /\ catalog = <<>>
    /\ built_profiles = <<>>
    /\ arg_job_id = 0
    /\ limit = 0
    /\ skill_gap = [matched |-> <<>>, missing |-> <<>>]
    /\ inferred = <<>>
    /\ arg_value = <<>>
    /\ normal_forms = <<>>

BuildSkillProfiles ==
    /\ upc = "start"
    /\ upc' = "done"
    /\ built_profiles' = build_skill_profiles_from_mentions(mentions)
    /\ UNCHANGED <<arg_min_frequency, arg_max_skills, catalog, arg_job_id, limit,
                   skill_gap, inferred, arg_value, normal_forms>>
    /\ UNCHANGED <<jobs_clean, tie_rank, mvars, cvars, xvars, lvars, avars>>

NextProfiles == BuildSkillProfiles

SpecProfiles == InitProfiles /\ [][NextProfiles]_vars

(***************************************************************************)
(* hackathon/core/matching.py: compute_skill_gap                           *)
(***************************************************************************)
\* len(token) of a blank-separated token: 9 is a single punctuation mark,
\* word 4 is a word of four letters
TokenLen(t) == IF t = 9 THEN 1 ELSE IF t = 4 THEN 4
               ELSE IF t \in {13, 14} THEN 11 ELSE WordLen(Lower(t))

\* token in word, as strings: word 5 is word 4 with more letters after it, and
\* the words 1 and 2 are the two parts of the token 14
Substring(token, word) ==
    token = word \/ (token = 4 /\ word = 5) \/ (token \in {1, 2} /\ word = 14)

\* every token of the skill, whatever its length
TokenCandidates_AnyLength(skill) == {Lower(skill[i]) : i \in DOMAIN skill}

\* line 79: the tokens of the skill longer than three characters
TokenCandidates(skill) == {Lower(skill[i]) : i \in {j \in DOMAIN skill : TokenLen(skill[j]) > 3}}

\* line 80: some candidate occurs in the lower-cased user text
HasMatch(skill, user_text) ==
    \E token \in TokenCandidates(skill) :
        \E i \in DOMAIN user_text : Substring(token, Lower(user_text[i]))

\* the score column of the mention table, lines 59-61
ScoreColumn(rows) == IF HasColumn(rows, "nlp_score") THEN "nlp_score" ELSE "correlation"

\* sort_values(score_column) in ascending order
RankedSkills_Ascending(id, rows, n, rank) ==
    LET job_skills == SelectRows(rows, {r \in Range(rows) : r.research_id = id})
        order == Argsort([i \in DOMAIN job_skills |-> job_skills[i][ScoreColumn(rows)]], rank)
        sorted == [i \in DOMAIN job_skills |-> job_skills[order[i]].taxonomy_skill]
    IN FirstN(Unique(sorted), n)

\* lines 67-73: the skills of the posting by descending score, each once, the
\* first limit of them
RankedSkills(id, rows, n, rank) ==
    LET job_skills == SelectRows(rows, {r \in Range(rows) : r.research_id = id})
        order == Argsort([i \in DOMAIN job_skills |-> 0 - job_skills[i][ScoreColumn(rows)]], rank)
        sorted == [i \in DOMAIN job_skills |-> job_skills[order[i]].taxonomy_skill]
    IN FirstN(Unique(sorted), n)

\* lines 78-85: the skills with a match, in ranked order
MatchedSkills(ranked, user_text) ==
    SelectRows(ranked, {skill \in Range(ranked) : HasMatch(skill, user_text)})

\* the skills with candidate tokens of which none matches
MissingSkills_WithTokensOnly(ranked, user_text) ==
    SelectRows(ranked, {skill \in Range(ranked) :
                           TokenCandidates(skill) # {} /\ ~HasMatch(skill, user_text)})

\* lines 78-85: the other skills, in ranked order
MissingSkills(ranked, user_text) ==
    SelectRows(ranked, {skill \in Range(ranked) : ~HasMatch(skill, user_text)})

GapOfRanked(ranked, user_text) ==
    [matched |-> MatchedSkills(ranked, user_text), missing |-> MissingSkills(ranked, user_text)]

compute_skill_gap(user_text, id, skill_mentions, n, rank) ==
    IF skill_mentions = <<>> THEN [matched |-> <<>>, missing |-> <<>>]
    ELSE IF ~(HasColumn(skill_mentions, "research_id") /\ HasColumn(skill_mentions, "taxonomy_skill"))
    THEN [matched |-> <<>>, missing |-> <<>>]
    ELSE IF ~HasColumn(skill_mentions, ScoreColumn(skill_mentions))
    THEN [matched |-> <<>>, missing |-> <<>>]
    ELSE GapOfRanked(RankedSkills(id, skill_mentions, n, rank), user_text)

(***************************************************************************)
(* One call of compute_skill_gap                                           *)
(***************************************************************************)
MaxGapMentions == 3
MaxLimit == 2

GapMentionRows ==
    [research_id : {1}, taxonomy_skill : {<<11>>, <<3>>, <<4, 3>>}, nlp_score : {50, 70}]
    \cup {[research_id |-> 2, taxonomy_skill |-> <<11>>, nlp_score |-> 70]}

GapMentionTables ==
    UNION {[1..n -> GapMentionRows] : n \in 0..MaxGapMentions}
    \cup {FeedRows(<<11>>, 2) \o FeedRows(<<3>>, 1),
          \* skills written with punctuation
          [i \in 1..2 |-> [research_id |-> 1, taxonomy_skill |-> <<12 + i>>, nlp_score |-> 70]],
          <<[research_id |-> 1, taxonomy_skill |-> <<13>>, nlp_score |-> 50],
            [research_id |-> 1, taxonomy_skill |-> <<4, 3>>, nlp_score |-> 70]>>,
          [i \in 1..2 |-> [research_id |-> i, nlp_score |-> 70]],
          [i \in 1..2 |-> [research_id |-> i, taxonomy_skill |-> <<11>>]]}

GapQueryTexts == {<<1, 3>>, <<1, 5>>}

InitGap ==
    /\ AnalyticsIdle
    /\ ConcIdle /\ LoadIdle
    /\ postings = <<>> /\ processed = <<>> /\ xpc = "start"
    /\ top_k = 0 /\ min_similarity = 0 /\ batch_size = 0
    /\ jobs_clean = <<>>
    /\ skill_profiles = <<>> /\ matching_index = None /\ top_n = 0
    /\ pc = "start" /\ results = <<>>
    /\ tie_rank \in {[i \in 1..MaxGapMentions |-> i],
                     [i \in 1..MaxGapMentions |-> MaxGapMentions + 1 - i]}
    /\ user_input \in GapQueryTexts
    /\ mentions \in GapMentionTables
    /\ upc = "start"
    /\ arg_min_frequency = 0
    /\ arg_max_skills = 0
    /\ catalog = <<>>
    /\ built_profiles = <<>>
    /\ arg_job_id \in {1, 2}
    /\ limit \in 0..MaxLimit
    /\ skill_gap = [matched |-> <<>>, missing |-> <<>>]
    /\ inferred = <<>>
    /\ arg_value = <<>>
    /\ normal_forms = <<>>

ComputeSkillGap ==
    /\ upc = "start"
    /\ upc' = "done"
    /\ skill_gap' = compute_skill_gap(user_input, arg_job_id, mentions, limit, tie_rank)
    /\ UNCHANGED <<arg_min_frequency, arg_max_skills, catalog, built_profiles, arg_job_id,
                   limit, inferred, arg_value, normal_forms>>
    /\ UNCHANGED <<jobs_clean, tie_rank, mvars, cvars, xvars, lvars, avars>>

NextGap == ComputeSkillGap

SpecGap == InitGap /\ [][NextGap]_vars

(***************************************************************************)
(* One call of infer_education_and_experience on a table of postings        *)
(***************************************************************************)
\* title and description: plain words, words of the education patterns (21,
\* 22) and phrases of the experience patterns (31, 32, 33)
InferTitles == {<<>>, <<21>>}

InferDescriptions == {<<>>, <<1>>, <<22, 32>>, <<31, 33>>, <<33, 32>>, <<26, 23>>}

\* structured fields: empty, a sentinel in either case, blanks only, a free
\* text (27, 34), the same with blanks around it, a text holding a pattern word
StructuredEducation == {<<>>, <<8>>, <<18>>, <<Blank>>, <<27>>, <<Blank, 27, Blank>>, <<21>>}

StructuredExperience == {<<>>, <<8>>, <<34>>, <<34, Blank>>}

InferRows ==
    {[system_job_id |-> 1, title |-> t, description |-> d,
      requirements_min_education |-> e, requirements_experience |-> x] :
        t \in InferTitles, d \in InferDescriptions,
        e \in StructuredEducation, x \in StructuredExperience}

\* tables of one row, of one row without some of the text columns, and of two rows
InferTables ==
    {<<r>> : r \in InferRows}
    \cup {WithoutColumns(<<r>>, c) :
             r \in {q \in InferRows : q.title = <<21>> /\ q.description \in {<<>>, <<22, 32>>}},
             c \in {{"requirements_min_education", "requirements_experience"}, {"title"}}}
    \cup {<<r, [q EXCEPT !.system_job_id = 2]>> :
             r \in {q \in InferRows : q.title = <<>> /\ q.description = <<22, 32>>
                                       /\ q.requirements_experience = <<34>>},
             q \in {q \in InferRows : q.title = <<>> /\ q.description = <<31, 33>>
                                       /\ q.requirements_min_education \in {<<>>, <<18>>}}}

InitInfer ==
    /\ AnalyticsIdle
    /\ MatchIdle /\ ConcIdle /\ LoadIdle
    /\ jobs_clean = <<>>
    /\ tie_rank = <<>>
    /\ postings \in InferTables
    /\ processed = <<>> /\ xpc = "start"
    /\ top_k = 0 /\ min_similarity = 0 /\ batch_size = 0
    /\ mentions = <<>>
    /\ UnitIdle

\* infer_education_and_experience(jobs_clean)
InferRequirements ==
    /\ upc = "start"
    /\ upc' = "done"
    /\ inferred' = infer_education_and_experience(postings)
    /\ UNCHANGED <<arg_min_frequency, arg_max_skills, catalog, built_profiles, arg_job_id,
                   limit, skill_gap, arg_value, normal_forms>>
    /\ UNCHANGED <<jobs_clean, tie_rank, mvars, cvars, xvars, lvars, avars>>

NextInfer == InferRequirements

SpecInfer == InitInfer /\ [][NextInfer]_vars

(***************************************************************************)
(* _normalize_text applied to a text and to its own result                  *)
(***************************************************************************)
MaxTextLen == 3

RawTokens == {0, 1, 3, 9, Blank, 11, 13}

RawTexts == UNION {[1..n -> RawTokens] : n \in 0..MaxTextLen}

InitNormalize ==
    /\ AnalyticsIdle
    /\ MatchIdle /\ ConcIdle /\ ExtractIdle /\ LoadIdle
    /\ jobs_clean = <<>>
    /\ tie_rank = <<>>
    /\ upc = "start"
    /\ arg_min_frequency = 0
    /\ arg_max_skills = 0
    /\ catalog = <<>>
    /\ built_profiles = <<>>
    /\ arg_job_id = 0
    /\ limit = 0
    /\ skill_gap = [matched |-> <<>>, missing |-> <<>>]
    /\ inferred = <<>>
    /\ arg_value \in RawTexts
    /\ normal_forms = <<>>

\* _normalize_text(value), then _normalize_text of what it returned
NormalizeTwice ==
    /\ upc = "start"
    /\ upc' = "done"
    /\ normal_forms' = <<normalize_text(arg_value), normalize_text(normalize_text(arg_value))>>
    /\ UNCHANGED <<arg_min_frequency, arg_max_skills, catalog, built_profiles, arg_job_id,
                   limit, skill_gap, inferred, arg_value>>
    /\ UNCHANGED <<jobs_clean, tie_rank, mvars, cvars, xvars, lvars, avars>>

NextNormalize == NormalizeTwice

SpecNormalize == InitNormalize /\ [][NextNormalize]_vars

(***************************************************************************)
(* hackathon/core/data.py: load_data and its cached artifacts              *)
(***************************************************************************)
DefaultTopK == 15
DefaultMinSimilarity == 8
DefaultBatchSize == 256

IdsOf(rows) == {rows[i].system_job_id : i \in DOMAIN rows}

\* to_csv then read_csv: an empty text field comes back as NaN
NaN == <<-1>>

\* the columns of the requirements profile that hold a text
DisplayColumns == {"education_display", "experience_display"}

read_csv(file) ==
    [i \in DOMAIN file.rows |->
        [c \in DOMAIN file.rows[i] |->
            IF c \in DisplayColumns /\ file.rows[i][c] = <<>> THEN NaN ELSE file.rows[i][c]]]

fillna(rows) ==
    [i \in DOMAIN rows |->
        [c \in DOMAIN rows[i] |->
            IF c \in DisplayColumns /\ rows[i][c] = NaN THEN <<>> ELSE rows[i][c]]]

to_csv(rows) == [exists |-> TRUE, rows |-> rows]

JobIdKey(r) == r.system_job_id

\* _load_cached_requirements_profile: None (absent or empty) or the cached rows
load_cached_requirements_profile(file) ==
    IF ~file.exists THEN [is_none |-> TRUE]
    ELSE LET requirements_profile == fillna(read_csv(file))
         IN IF requirements_profile = <<>> THEN [is_none |-> TRUE]
            ELSE [is_none |-> FALSE,
                  rows |-> DropDuplicates(requirements_profile,
                               [i \in DOMAIN requirements_profile |->
                                   JobIdKey(requirements_profile[i])])]

\* the cache is kept whenever it has as many ids as there are postings
CacheIdsDiffer_ByCount(required_ids, cached_ids) ==
    Cardinality(required_ids) # Cardinality(cached_ids)

\* line 220: required_ids != cached_ids
CacheIdsDiffer(required_ids, cached_ids) == required_ids # cached_ids

\* lines 214-221: the requirements profile in use and the file left on disk
RequirementsStep(jobs, file) ==
    LET cached == load_cached_requirements_profile(file)
        generated == infer_education_and_experience(jobs)
    IN IF cached.is_none
       THEN [rows |-> generated, file |-> to_csv(generated)]
       ELSE IF CacheIdsDiffer(IdsOf(jobs), IdsOf(cached.rows))
       THEN [rows |-> generated, file |-> to_csv(generated)]
       ELSE [rows |-> cached.rows, file |-> file]

\* line 223-224: jobs_clean.merge(requirements_profile, on="system_job_id",
\* how="left").fillna("")
MergeLeft(jobs, profile) ==
    Flatten([i \in DOMAIN jobs |->
        LET matches == SelectRows(profile, {r \in Range(profile) :
                                      r.system_job_id = jobs[i].system_job_id})
        IN IF matches = <<>>
           THEN <<jobs[i] @@ [education_display |-> <<>>, education_source |-> "",
                              experience_display |-> <<>>, experience_source |-> ""]>>
           ELSE [m \in DOMAIN matches |-> jobs[i] @@ matches[m]]])

\* lines 166-169: the taxonomy records stand in when the text gives no mention
\* lines 166-168: a row per taxonomy record, the correlation as its score
FallbackMentions(feed) ==
    [i \in DOMAIN feed |-> [research_id |-> feed[i].research_id,
                            taxonomy_skill |-> feed[i].taxonomy_skill,
                            nlp_score |-> feed[i].correlation]]

\* the taxonomy records are taken whatever the extraction returned
MentionsOrFallback_Always(rows, feed) == FallbackMentions(feed)

MentionsOrFallback(rows, feed) ==
    IF rows = <<>> THEN FallbackMentions(feed) ELSE rows

\* the columns lines 166-167 read from the feed
FallbackColumns == {"research_id", "taxonomy_skill", "correlation"}

\* lines 171-181: the profiles built from the mentions, both returned
StructuredData(rows) ==
    [raised |-> FALSE, mentions |-> rows,
     skill_profiles |-> build_skill_profiles_from_mentions(rows)]

StructuredDataOf(extracted, feed) ==
    IF extracted.raised THEN extracted
    ELSE IF extracted.rows = <<>> /\ \E c \in FallbackColumns : feed # <<>> /\ ~HasColumn(feed, c)
    THEN KeyError
    ELSE StructuredData(MentionsOrFallback(extracted.rows, feed))

\* _generate_nlp_structured_data
generate_nlp_structured_data(jobs, feed, rank) ==
    StructuredDataOf(extract_skill_mentions_from_text(jobs, feed, DefaultTopK,
                         DefaultMinSimilarity, DefaultBatchSize, rank), feed)

\* _load_cached_nlp_structured_data: None unless both files exist and hold rows
load_cached_nlp_structured_data(mfile, pfile) ==
    IF ~mfile.exists \/ ~pfile.exists THEN [is_none |-> TRUE]
    ELSE IF read_csv(mfile) = <<>> \/ read_csv(pfile) = <<>> THEN [is_none |-> TRUE]
    ELSE [is_none |-> FALSE, mentions |-> read_csv(mfile), skill_profiles |-> read_csv(pfile)]

\* the postings of the dataset over time: per posting id one of two contents
PostingContents ==
    {[description |-> <<1, 2>>, requirements_min_education |-> <<>>],
     [description |-> <<2, 11, 26>>, requirements_min_education |-> <<24>>],
     [description |-> <<2, 1>>, requirements_min_education |-> <<8>>]}

DatasetTables ==
    UNION {[ids -> PostingContents] : ids \in SUBSET PostingIds}

DatasetRows(t) ==
    LET ids == SortedSeq(DOMAIN t)
    IN [i \in DOMAIN ids |->
           [system_job_id |-> ids[i], description |-> t[ids[i]].description,
            requirements_min_education |-> t[ids[i]].requirements_min_education]]

DatasetFeeds ==
    {<<>>, FeedRows(<<11>>, 2) \o FeedRows(<<2>>, 3) \o FeedRows(<<1>>, 2)}

InitLoad ==
    /\ AnalyticsIdle
    /\ MatchIdle /\ ConcIdle /\ UnitIdle
    /\ postings = <<>> /\ mentions = <<>> /\ xpc = "start"
    /\ top_k = 0 /\ min_similarity = 0 /\ batch_size = 0
    /\ processed \in DatasetFeeds
    /\ jobs_clean = <<>>
    /\ tie_rank = [i \in 1..RankWidth |-> i]
    /\ raw_jobs \in {DatasetRows(t) : t \in DatasetTables}
    /\ requirements_file = NoFile
    /\ mentions_file = NoFile
    /\ profiles_file = NoFile
    /\ lpc = "idle"
    /\ loaded = NothingLoaded

\* lines 230-234: the cached pair when there is one, else a generation, which
\* writes both files or raises
NlpStep(cached, generated, mfile, pfile) ==
    IF ~cached.is_none
    THEN [raised |-> FALSE, skill_profiles |-> cached.skill_profiles,
          nlp_mentions |-> cached.mentions, mentions_file |-> mfile, profiles_file |-> pfile]
    ELSE IF generated.raised
    THEN [raised |-> TRUE, skill_profiles |-> <<>>, nlp_mentions |-> <<>>,
          mentions_file |-> mfile, profiles_file |-> pfile]
    ELSE [raised |-> FALSE, skill_profiles |-> generated.skill_profiles,
          nlp_mentions |-> generated.mentions,
          mentions_file |-> to_csv(generated.mentions),
          profiles_file |-> to_csv(generated.skill_profiles)]

LoadMerged(merged, feed, rank, rfile, mfile, pfile) ==
    [jobs_clean |-> merged,
     requirements_file |-> rfile,
     nlp |-> NlpStep(load_cached_nlp_structured_data(mfile, pfile),
                     generate_nlp_structured_data(merged, feed, rank), mfile, pfile)]

LoadWithRequirements(jobs, req, feed, rank, mfile, pfile) ==
    LoadMerged(MergeLeft(jobs, req.rows), feed, rank, req.file, mfile, pfile)

\* load_data: what it returns or that it raised, and the files it leaves
load_data(jobs, feed, rank, rfile, mfile, pfile) ==
    LoadWithRequirements(jobs, RequirementsStep(jobs, rfile), feed, rank, mfile, pfile)

(***************************************************************************)
(* hackathon/core/analytics_logger.py                                       *)
(***************************************************************************)
MaxEvents == 2

\* the values a field of an event can hold: "" (also for a key the event
\* lacks), blanks, None, a number, a text that reads as a whole number, a text
\* that reads as a number with decimals, any other text
\* (a text is a number that stands for it)
Empty == [kind |-> "empty", value |-> 0]
BlankText == [kind |-> "blank", value |-> 0]
NoneValue == [kind |-> "none", value |-> 0]
Number(n) == [kind |-> "number", value |-> n]
NumericText(n) == [kind |-> "numeric_text", value |-> n]
DecimalText(n) == [kind |-> "decimal_text", value |-> n]
Text(t) == [kind |-> "text", value |-> t]

\* the columns of EVENT_COLUMNS the model carries: of the eight text columns
\* event_type (NOT NULL in the table) and title, and the four numeric ones
COUNT_COLUMNS == <<"results_count", "direct_count", "skill_count">>

\* not str(value).strip()
StripsToEmpty(value) == value.kind \in {"empty", "blank"}

\* line 74: int(value) if str(value).strip() else None
ToInt(value) ==
    IF StripsToEmpty(value) THEN [raised |-> FALSE, value |-> NoneValue]
    ELSE IF value.kind \in {"number", "numeric_text"}
    THEN [raised |-> FALSE, value |-> Number(value.value)]
    ELSE IF value.kind = "none" THEN [raised |-> TRUE, error |-> "TypeError"]
    ELSE [raised |-> TRUE, error |-> "ValueError"]

\* line 77: float(score_value) if str(score_value).strip() else None
ToFloat(value) ==
    IF StripsToEmpty(value) THEN [raised |-> FALSE, value |-> NoneValue]
    ELSE IF value.kind \in {"number", "numeric_text", "decimal_text"}
    THEN [raised |-> FALSE, value |-> Number(value.value)]
    ELSE IF value.kind = "none" THEN [raised |-> TRUE, error |-> "TypeError"]
    ELSE [raised |-> TRUE, error |-> "ValueError"]

\* lines 71-77: the first conversion that fails ends the call
NormalizedEvent(event) ==
    LET failed == {c \in DOMAIN COUNT_COLUMNS : ToInt(event[COUNT_COLUMNS[c]]).raised}
    IN IF failed # {}
       THEN ToInt(event[COUNT_COLUMNS[CHOOSE c \in failed : \A d \in failed : c <= d]])
       ELSE IF ToFloat(event.match_score).raised THEN ToFloat(event.match_score)
       ELSE [raised |-> FALSE,
             event |-> [event_type |-> event.event_type,
                        title |-> event.title,
                        results_count |-> ToInt(event.results_count).value,
                        direct_count |-> ToInt(event.direct_count).value,
                        skill_count |-> ToInt(event.skill_count).value,
                        match_score |-> ToFloat(event.match_score).value]]

\* initialize_analytics_logger: CREATE TABLE IF NOT EXISTS, and the header
\* written when there is no CSV file
initialize_analytics_logger(db, csv) ==
    [db |-> [exists |-> TRUE, rows |-> db.rows],
     csv |-> IF csv.exists THEN csv ELSE [exists |-> TRUE, rows |-> <<>>]]

\* lines 79-112: the INSERT; event_type is NOT NULL, id is AUTOINCREMENT
InsertEvent(db, row) ==
    IF row.event_type = NoneValue THEN [raised |-> TRUE, error |-> "IntegrityError"]
    ELSE [raised |-> FALSE,
          db |-> [exists |-> TRUE,
                  rows |-> Append(db.rows, [id |-> Len(db.rows) + 1] @@ row)]]

\* lines 114-116: the event as it was given, appended to the CSV file
WriteRow(csv, event) == [exists |-> TRUE, rows |-> Append(csv.rows, event)]

\* lines 69-116 on the artifacts initialize_analytics_logger left
LogInitialized(files, event) ==
    IF NormalizedEvent(event).raised
    THEN [db |-> files.db, csv |-> files.csv, outcome |-> NormalizedEvent(event).error]
    ELSE IF InsertEvent(files.db, NormalizedEvent(event).event).raised
    THEN [db |-> files.db, csv |-> files.csv,
          outcome |-> InsertEvent(files.db, NormalizedEvent(event).event).error]
    ELSE [db |-> InsertEvent(files.db, NormalizedEvent(event).event).db,
          csv |-> WriteRow(files.csv, event), outcome |-> "ok"]

\* the row goes to the CSV file before the event is converted and inserted
log_analytics_event_CsvFirst(db, csv, event) ==
    LogInitialized([db |-> initialize_analytics_logger(db, csv).db,
                    csv |-> WriteRow(initialize_analytics_logger(db, csv).csv, event)], event)

\* log_analytics_event(project_root, event)
log_analytics_event(db, csv, event) ==
    LogInitialized(initialize_analytics_logger(db, csv), event)

\* the events given to the logger
Events ==
    [event_type : {Text(1), NoneValue},
     title : {Text(1), Text(2)},
     results_count : {Empty, Number(3), NumericText(3), DecimalText(3)},
     direct_count : {Empty},
     skill_count : {BlankText, NoneValue},
     match_score : {Empty, DecimalText(50), Text(3)}]

InitAnalytics ==
    /\ MatchIdle /\ ConcIdle /\ ExtractIdle /\ LoadIdle /\ UnitIdle
    /\ jobs_clean = <<>>
    /\ tie_rank = <<>>
    /\ AnalyticsIdle

\* initialize_analytics_logger(project_root)
InitializeAnalyticsLogger ==
    /\ sqlite_db' = initialize_analytics_logger(sqlite_db, csv_file).db
    /\ csv_file' = initialize_analytics_logger(sqlite_db, csv_file).csv
    /\ apc' = "initialized"
    /\ UNCHANGED <<jobs_clean, tie_rank, mvars, cvars, xvars, lvars, uvars>>

\* log_analytics_event(project_root, event), one call after the other
LogAnalyticsEvent ==
    /\ \E event \in Events :
          \E run \in {log_analytics_event(sqlite_db, csv_file, event)} :
              /\ Len(run.db.rows) <= MaxEvents
              /\ Len(run.csv.rows) <= MaxEvents
              /\ sqlite_db' = run.db
              /\ csv_file' = run.csv
              /\ apc' = run.outcome
    /\ UNCHANGED <<jobs_clean, tie_rank, mvars, cvars, xvars, lvars, uvars>>

NextAnalytics == InitializeAnalyticsLogger \/ LogAnalyticsEvent

SpecAnalytics == InitAnalytics /\ [][NextAnalytics]_vars

(***************************************************************************)
(* One call of _generate_nlp_structured_data                                *)
(***************************************************************************)
InitGenerate ==
    /\ AnalyticsIdle
    /\ MatchIdle /\ ConcIdle /\ UnitIdle
    /\ jobs_clean = <<>>
    /\ tie_rank = [i \in 1..RankWidth |-> i]
    /\ postings \in {PostingRows(t) : t \in PostingTables} \cup ShapedPostings
    /\ processed \in TaxonomyFeeds
    /\ top_k = DefaultTopK
    /\ min_similarity = DefaultMinSimilarity
    /\ batch_size = DefaultBatchSize
    /\ xpc = "start"
    /\ mentions = <<>>
    /\ LoadIdle

\* _generate_nlp_structured_data(jobs_clean, processed): the pair returned and
\* the two files written, or the error raised before anything is written
GenerateNlpStructuredData ==
    /\ upc = "start"
    /\ \E run \in {generate_nlp_structured_data(postings, processed, tie_rank)} :
          IF run.raised
          THEN /\ upc' = run.error
               /\ UNCHANGED <<mentions, built_profiles, mentions_file, profiles_file>>
          ELSE /\ upc' = "done"
               /\ mentions' = run.mentions
               /\ built_profiles' = run.skill_profiles
               /\ mentions_file' = to_csv(run.mentions)
               /\ profiles_file' = to_csv(run.skill_profiles)
    /\ UNCHANGED <<arg_min_frequency, arg_max_skills, catalog, arg_job_id, limit,
                   skill_gap, inferred, arg_value, normal_forms>>
    /\ UNCHANGED <<postings, processed, top_k, min_similarity, batch_size, xpc>>
    /\ UNCHANGED <<raw_jobs, requirements_file, lpc, loaded>>
    /\ UNCHANGED <<jobs_clean, tie_rank, mvars, cvars, avars>>

NextGenerate == GenerateNlpStructuredData

SpecGenerate == InitGenerate /\ [][NextGenerate]_vars

\* load_data(), one run
LoadData ==
    /\ lpc = "idle"
    /\ \E run \in {load_data(raw_jobs, processed, tie_rank,
                              requirements_file, mentions_file, profiles_file)} :
          /\ requirements_file' = run.requirements_file
          /\ mentions_file' = run.nlp.mentions_file
          /\ profiles_file' = run.nlp.profiles_file
          /\ lpc' = IF run.nlp.raised THEN "raised" ELSE "done"
          /\ loaded' = IF run.nlp.raised THEN NothingLoaded
                       ELSE [jobs_clean |-> run.jobs_clean,
                             skill_profiles |-> run.nlp.skill_profiles,
                             nlp_mentions |-> run.nlp.nlp_mentions]
    /\ UNCHANGED <<raw_jobs>>
    /\ UNCHANGED <<jobs_clean, tie_rank, mvars, cvars, xvars, uvars, avars>>

\* between two runs the dataset is replaced (or left as it is); the value the
\* last run returned is gone with the process that held it
ReplaceDataset ==
    /\ lpc \in {"done", "raised"}
    /\ lpc' = "idle"
    /\ raw_jobs' \in {DatasetRows(t) : t \in DatasetTables}
    /\ loaded' = NothingLoaded
    /\ UNCHANGED <<requirements_file, mentions_file, profiles_file>>
    /\ UNCHANGED <<jobs_clean, tie_rank, mvars, cvars, xvars, uvars, avars>>

NextLoad == LoadData \/ ReplaceDataset

SpecLoad == InitLoad /\ [][NextLoad]_vars

(***************************************************************************)
(* Concurrent sessions of app.py: every session thread runs the script,    *)
(* takes the index from st.cache_resource and calls find_matching_jobs;    *)
(* the index of a changed profile collection is built by the first session *)
(* that reruns                                                             *)
(***************************************************************************)
Sessions == 1..MaxSessions

\* the profile collections load_data returns over time
ProfileVersions ==
    << <<[system_job_id |-> 1, skill_text |-> <<1>>],
         [system_job_id |-> 2, skill_text |-> <<2>>]>>,
       <<[system_job_id |-> 1, skill_text |-> <<2>>],
         [system_job_id |-> 2, skill_text |-> <<1, 2>>]>> >>

SessionQueryTexts == {<<1>>, <<2, 1>>}
SessionTopNs == {1, 2}

NoCall == [pc |-> "idle"]

InitSessions ==
    /\ AnalyticsIdle
    /\ MatchIdle /\ ExtractIdle /\ LoadIdle /\ UnitIdle
    /\ jobs_clean = <<1, 2>>
    /\ tie_rank \in {[i \in 1..RankWidth |-> i], [i \in 1..RankWidth |-> RankWidth + 1 - i]}
    /\ current_profiles = 1
    /\ index_heap = <<build_matching_index(ProfileVersions[1])>>
    /\ resource_cache = [v \in DOMAIN ProfileVersions |-> IF v = 1 THEN 1 ELSE 0]
    /\ session = [q \in Sessions |-> [skill_profiles |-> 1, matching_index |-> 1]]
    /\ calls = [q \in Sessions |-> NoCall]

\* the cached load_data result is refreshed with a changed profile collection
ChangeProfiles ==
    /\ \E v \in DOMAIN ProfileVersions :
          /\ v # current_profiles
          /\ current_profiles' = v
    /\ UNCHANGED <<index_heap, resource_cache, session, calls>>
    /\ UNCHANGED <<jobs_clean, tie_rank, mvars, xvars, lvars, uvars, avars>>

\* a rebuild that refits the index object already in the cache
RerunScript_InPlace(q) ==
    /\ calls[q].pc = "idle"
    /\ IF resource_cache[current_profiles] # 0
       THEN /\ session' = [session EXCEPT ![q] =
                    [skill_profiles |-> current_profiles,
                     matching_index |-> resource_cache[current_profiles]]]
            /\ UNCHANGED <<index_heap, resource_cache>>
       ELSE /\ index_heap' = [index_heap EXCEPT ![Len(index_heap)] =
                    build_matching_index(ProfileVersions[current_profiles])]
            /\ resource_cache' = [v \in DOMAIN ProfileVersions |->
                    IF v = current_profiles THEN Len(index_heap) ELSE 0]
            /\ session' = [session EXCEPT ![q] =
                    [skill_profiles |-> current_profiles,
                     matching_index |-> Len(index_heap)]]
    /\ UNCHANGED <<current_profiles, calls>>
    /\ UNCHANGED <<jobs_clean, tie_rank, mvars, xvars, lvars, uvars, avars>>

\* app.py lines 49 and 62-67 on a script run: the session takes the current
\* profiles and their index, which build_matching_index creates on a cache miss
RerunScript(q) ==
    /\ calls[q].pc = "idle"
    /\ IF resource_cache[current_profiles] # 0
       THEN /\ session' = [session EXCEPT ![q] =
                    [skill_profiles |-> current_profiles,
                     matching_index |-> resource_cache[current_profiles]]]
            /\ UNCHANGED <<index_heap, resource_cache>>
       ELSE /\ index_heap' = Append(index_heap,
                    build_matching_index(ProfileVersions[current_profiles]))
            /\ resource_cache' = [resource_cache EXCEPT
                    ![current_profiles] = Len(index_heap) + 1]
            /\ session' = [session EXCEPT ![q] =
                    [skill_profiles |-> current_profiles,
                     matching_index |-> Len(index_heap) + 1]]
    /\ UNCHANGED <<current_profiles, calls>>
    /\ UNCHANGED <<jobs_clean, tie_rank, mvars, xvars, lvars, uvars, avars>>

\* matching.py lines 17-30: the arguments are bound and the index tuple unpacked
Q_Call(q) ==
    /\ calls[q].pc = "idle"
    /\ \E text \in SessionQueryTexts, n \in SessionTopNs :
          calls' = [calls EXCEPT ![q] =
              [pc |-> "called", user_input |-> text, top_n |-> n,
               skill_profiles |-> session[q].skill_profiles,
               matching_index |-> session[q].matching_index]]
    /\ UNCHANGED <<current_profiles, index_heap, resource_cache, session>>
    /\ UNCHANGED <<jobs_clean, tie_rank, mvars, xvars, lvars, uvars, avars>>

\* a transform that refits the shared vectorizer on the query
Q_Transform_Refits(q) ==
    /\ calls[q].pc = "called"
    /\ LET h == calls[q].matching_index
           refit == [vocabulary |-> index_heap[h].vectorizer.vocabulary,
                     idf |-> [f \in index_heap[h].vectorizer.vocabulary |->
                                 Idf(f, <<calls[q].user_input>>)]]
       IN /\ index_heap' = [index_heap EXCEPT ![h].vectorizer = refit]
          /\ calls' = [calls EXCEPT ![q] =
                 [pc |-> "transformed", user_input |-> calls[q].user_input,
                  top_n |-> calls[q].top_n, skill_profiles |-> calls[q].skill_profiles,
                  matching_index |-> h,
                  user_vector |-> Transform(refit, calls[q].user_input)]]
    /\ UNCHANGED <<current_profiles, resource_cache, session>>
    /\ UNCHANGED <<jobs_clean, tie_rank, mvars, xvars, lvars, uvars, avars>>

\* line 32: user_vector = vectorizer.transform([str(user_input)])
Q_Transform(q) ==
    /\ calls[q].pc = "called"
    /\ LET h == calls[q].matching_index
       IN calls' = [calls EXCEPT ![q] =
              [pc |-> "transformed", user_input |-> calls[q].user_input,
               top_n |-> calls[q].top_n, skill_profiles |-> calls[q].skill_profiles,
               matching_index |-> h,
               user_vector |-> Transform(index_heap[h].vectorizer, calls[q].user_input)]]
    /\ UNCHANGED <<current_profiles, index_heap, resource_cache, session>>
    /\ UNCHANGED <<jobs_clean, tie_rank, mvars, xvars, lvars, uvars, avars>>

\* line 33: similarities = cosine_similarity(user_vector, matrix)[0]
Q_Similarity(q) ==
    /\ calls[q].pc = "transformed"
    /\ LET h == calls[q].matching_index
       IN calls' = [calls EXCEPT ![q] =
              [pc |-> "scored", user_input |-> calls[q].user_input,
               top_n |-> calls[q].top_n, skill_profiles |-> calls[q].skill_profiles,
               matching_index |-> h, user_vector |-> calls[q].user_vector,
               similarities |-> CosineSimilarity(calls[q].user_vector, index_heap[h].matrix)]]
    /\ UNCHANGED <<current_profiles, index_heap, resource_cache, session>>
    /\ UNCHANGED <<jobs_clean, tie_rank, mvars, xvars, lvars, uvars, avars>>

\* lines 35-43: the ranked rows are returned
Q_Rank(q) ==
    /\ calls[q].pc = "scored"
    /\ LET h == calls[q].matching_index
       IN calls' = [calls EXCEPT ![q] =
              [pc |-> "done", user_input |-> calls[q].user_input,
               top_n |-> calls[q].top_n, skill_profiles |-> calls[q].skill_profiles,
               matching_index |-> h, user_vector |-> calls[q].user_vector,
               similarities |-> calls[q].similarities,
               rows |-> RankRows(calls[q].similarities, jobs_clean, calls[q].top_n,
                                 index_heap[h].job_ids, tie_rank)]]
    /\ UNCHANGED <<current_profiles, index_heap, resource_cache, session>>
    /\ UNCHANGED <<jobs_clean, tie_rank, mvars, xvars, lvars, uvars, avars>>

\* the caller takes the rows; the session is free for its next script run
Q_Return(q) ==
    /\ calls[q].pc = "done"
    /\ calls' = [calls EXCEPT ![q] = NoCall]
    /\ UNCHANGED <<current_profiles, index_heap, resource_cache, session>>
    /\ UNCHANGED <<jobs_clean, tie_rank, mvars, xvars, lvars, uvars, avars>>

NextSessions ==
    \/ ChangeProfiles
    \/ \E q \in Sessions :
          \/ RerunScript(q)
          \/ Q_Call(q)
          \/ Q_Transform(q)
          \/ Q_Similarity(q)
          \/ Q_Rank(q)
          \/ Q_Return(q)

SpecSessions == InitSessions /\ [][NextSessions]_vars

(***************************************************************************)
(* Properties of one find_matching_jobs call (SpecMatch)                   *)
(***************************************************************************)
\* the index the call answers from: the one passed, else the one it builds
UsedIndex == IF matching_index = None THEN build_matching_index(skill_profiles)
             ELSE matching_index

\* similarity of the query to the posting at position d of the index
SimAt(d) ==
    CosineSimilarity(Transform(UsedIndex.vectorizer, user_input), UsedIndex.matrix)[d]

ReturnedIds == {results[i].system_job_id : i \in DOMAIN results}

\* every indexed posting id occurs exactly once in the postings table
IndexedOnceInTable ==
    \A d \in DOMAIN UsedIndex.job_ids :
        Cardinality({i \in DOMAIN jobs_clean : jobs_clean[i] = UsedIndex.job_ids[d]}) = 1

Answered == pc = "done" /\ skill_profiles # <<>>

\* C5: an index built over zero profiles makes a query return an empty result
\* and never fail: building from an empty profile collection and querying
\* completes without error and yields no postings.
C5_EmptyIndexNeverFails ==
    skill_profiles = <<>> =>
        /\ pc # "raised"
        /\ pc = "done" => results = <<>>

\* C6: when every indexed posting id occurs exactly once in the postings table,
\* the call returns exactly min(top_n, indexed postings) rows, no posting left
\* out is more similar to the query than a returned one, each row carries its
\* own similarity as match_score, and the rows are in descending score order.
C6_TopNHighest ==
    (Answered /\ IndexedOnceInTable) =>
        /\ Len(results) = Min(top_n, Len(UsedIndex.job_ids))
        /\ \A i \in DOMAIN results :
              \E d \in DOMAIN UsedIndex.job_ids :
                  /\ UsedIndex.job_ids[d] = results[i].system_job_id
                  /\ results[i].match_score = SimAt(d)
        /\ \A d \in DOMAIN UsedIndex.job_ids :
              UsedIndex.job_ids[d] \notin ReturnedIds =>
                  \A i \in DOMAIN results : SimAt(d) <= results[i].match_score
        /\ \A i, j \in DOMAIN results :
              i < j => results[i].match_score >= results[j].match_score

C6_Witness ==
    /\ Answered /\ IndexedOnceInTable
    /\ top_n >= 1 /\ top_n < Len(UsedIndex.job_ids)
    /\ Len(results) = top_n
    /\ results[1].match_score > 0
    /\ \E d \in DOMAIN UsedIndex.job_ids : SimAt(d) < results[1].match_score

\* C7: ties in similarity are broken by original posting order: of two postings
\* with equal similarity the earlier one in index order is selected before the
\* later one at the top_n cut-off and is listed before it in the result.
C7_TiesByPostingOrder ==
    (Answered /\ IndexedOnceInTable) =>
        \A d1, d2 \in DOMAIN UsedIndex.job_ids :
            (d1 < d2 /\ SimAt(d1) = SimAt(d2)) =>
                /\ UsedIndex.job_ids[d2] \in ReturnedIds
                      => UsedIndex.job_ids[d1] \in ReturnedIds
                /\ \A i, j \in DOMAIN results :
                      (/\ results[i].system_job_id = UsedIndex.job_ids[d1]
                       /\ results[j].system_job_id = UsedIndex.job_ids[d2]) => i < j

\* C8: querying a non-empty index with the empty string completes without
\* error and returns up to top_n rows in rank order, each with a numeric
\* match_score.
C8_BlankQueryAnswered ==
    (user_input = <<>> /\ skill_profiles # <<>> /\ ~UsedIndex.raised) =>
        /\ pc # "raised"
        /\ pc = "done" =>
              /\ Len(results) <= top_n
              /\ \A i \in DOMAIN results : results[i].match_score \in 0..100
              /\ \A i, j \in DOMAIN results :
                    i < j => results[i].match_score >= results[j].match_score

C8_Witness ==
    /\ pc = "done" /\ user_input = <<>> /\ matching_index # None
    /\ top_n >= 2 /\ Len(results) = 2

(***************************************************************************)
(* Properties of concurrent sessions (SpecSessions)                        *)
(***************************************************************************)
\* no step changes an index object that exists
IndexObjectsKept ==
    \A h \in DOMAIN index_heap :
        h \in DOMAIN index_heap' /\ index_heap'[h] = index_heap[h]

\* what the call of session q returns when it runs alone
AloneResult(q) ==
    find_matching_jobs(calls[q].user_input, jobs_clean,
                       ProfileVersions[calls[q].skill_profiles], calls[q].top_n,
                       index_heap[calls[q].matching_index], tie_rank).rows

\* C3: querying never mutates the index: under any interleaving of concurrent
\* find_matching_jobs calls sharing one index every call returns what it returns
\* when run alone, and no step of a call changes an index.
C3_QueriesLeaveIndexAlone ==
    /\ [](\A q \in DOMAIN calls : calls[q].pc = "done" => calls[q].rows = AloneResult(q))
    /\ [][calls' # calls => index_heap' = index_heap]_vars

C3_Witness ==
    \E q1, q2 \in DOMAIN calls :
        /\ q1 # q2
        /\ calls[q1].pc = "done" /\ calls[q1].rows # <<>>
        /\ calls[q2].pc = "scored"
        /\ calls[q1].matching_index = calls[q2].matching_index
        /\ calls[q1].user_input # calls[q2].user_input

\* C4: a rebuild is not observable by a query in progress: building creates a
\* new index and changes no index built before, and a query uses the
\* vectorizer, matrix and posting-id list of the index it started with for its
\* whole run.
C4_RebuildNotObservable ==
    /\ [][IndexObjectsKept]_vars
    /\ [](\A q \in DOMAIN calls :
            LET started == index_heap[calls[q].matching_index]
            IN /\ calls[q].pc \in {"transformed", "scored", "done"} =>
                     calls[q].user_vector = Transform(started.vectorizer, calls[q].user_input)
               /\ calls[q].pc \in {"scored", "done"} =>
                     calls[q].similarities =
                         CosineSimilarity(calls[q].user_vector, started.matrix)
               /\ calls[q].pc = "done" =>
                     calls[q].rows = RankRows(calls[q].similarities, jobs_clean,
                                              calls[q].top_n, started.job_ids, tie_rank))

\* a query still runs on the first index after a second one was built
C4_Witness ==
    \E q \in DOMAIN calls :
        /\ calls[q].pc = "done"
        /\ calls[q].matching_index = 1
        /\ Len(index_heap) = 2
        /\ index_heap[1] # index_heap[2]
        /\ calls[q].rows # <<>>

(***************************************************************************)
(* Properties of extract_skill_mentions_from_text (SpecExtract)            *)
(***************************************************************************)
MentionsOf(id) == SelectRows(mentions, {m \in Range(mentions) : m.research_id = id})

\* C9: every returned mention has score >= min_similarity and every posting
\* has at most top_k returned mentions.
C9_ThresholdAndTopK ==
    xpc = "done" =>
        /\ \A i \in DOMAIN mentions : mentions[i].nlp_score >= min_similarity
        /\ \A j \in DOMAIN postings :
              Cardinality({i \in DOMAIN mentions :
                              mentions[i].research_id = Col(postings[j], "system_job_id")}) <= top_k

\* a posting with more skills above the threshold than top_k, cut to top_k:
\* one more mention would have been returned for top_k + 1
C9_Witness ==
    /\ xpc = "done"
    /\ \E i \in DOMAIN mentions : mentions[i].nlp_score < 100
    /\ Len(extract_skill_mentions_from_text(postings, processed, top_k + 1, min_similarity,
                                             batch_size, tie_rank).rows) > Len(mentions)

\* C10 as claimed: the mentions of one posting are sorted strictly descending,
\* each score strictly greater than the score of the posting's next mention.
C10_StrictlyDescending ==
    xpc = "done" =>
        \A i \in DOMAIN mentions :
            (i + 1 \in DOMAIN mentions /\ mentions[i].research_id = mentions[i + 1].research_id)
                => mentions[i].nlp_score > mentions[i + 1].nlp_score

\* C10 as amended: the mentions of one posting are contiguous and sorted in
\* descending order of score, each score greater than or equal to the score
\* of the posting's next mention.
C10_Descending ==
    xpc = "done" =>
        \A i, j \in DOMAIN mentions :
            (i < j /\ mentions[i].research_id = mentions[j].research_id)
                => /\ mentions[i].nlp_score >= mentions[j].nlp_score
                   /\ \A m \in i..j : mentions[m].research_id = mentions[i].research_id

\* a posting with two mentions of different scores
C10_Witness ==
    /\ xpc = "done"
    /\ \E i \in DOMAIN mentions :
          /\ i + 1 \in DOMAIN mentions
          /\ mentions[i].research_id = mentions[i + 1].research_id
          /\ mentions[i].nlp_score > mentions[i + 1].nlp_score


SkillCatalog == build_skill_catalog(processed, DefaultMinFrequency, DefaultMaxSkills, tie_rank)

ExtractRaised == xpc \in {"ValueError", "KeyError"}

\* the batch sizes compared with the one the call used
BatchSizes == 1..(MaxBatch + 1)

\* C11: whatever the batch size (>= 1), the extraction gives the rows, and the
\* order of rows, that the call gave with its own batch size, and raises
\* exactly when the call raised
C11_BatchSizeIrrelevant ==
    xpc # "start" =>
        \A size \in BatchSizes :
            LET other == extract_skill_mentions_from_text(postings, processed, top_k,
                                                          min_similarity, size, tie_rank)
            IN /\ other.raised = ExtractRaised
               /\ ~other.raised => other.rows = mentions

\* a call that split the postings into several batches
\* and found mentions for postings of different batches
C11_Witness ==
    /\ xpc = "done"
    /\ batch_size < Len(postings)
    /\ \E i, j \in DOMAIN mentions :
          mentions[i].research_id # mentions[j].research_id

C13_ExtractionNeverRaises ==
    (postings # <<>> /\ SkillCatalog # <<>>) => ~ExtractRaised

\* C14: a posting table without one of the columns the extraction reads is
\* handled with default values: the call does not fail on the absent column
C14_AbsentColumnsDefaulted ==
    xpc # "KeyError"

(***************************************************************************)
(* Properties of load_data and its cached artifacts (SpecLoad)             *)
(***************************************************************************)
MentionIds(rows) == {rows[i].research_id : i \in DOMAIN rows}

\* a run of load_data: the step from idle to done or raised
LoadRun == lpc = "idle" /\ lpc' # "idle"

\* what a generation from the postings now in the dataset gives
FreshArtifacts ==
    generate_nlp_structured_data(MergeLeft(raw_jobs, RequirementsStep(raw_jobs, requirements_file).rows),
                                 processed, tie_rank)

\* the cached mentions/profiles pair that a run finds on disk
CachedArtifacts == load_cached_nlp_structured_data(mentions_file, profiles_file)

\* C1: a run that finds cached mentions or profiles whose posting ids differ
\* from the ids of the current postings does not return them: what it returns
\* is the mentions and profiles generated from the current postings
C1_StaleArtifactsRegenerated ==
    [][(/\ LoadRun /\ lpc' = "done"
        /\ ~CachedArtifacts.is_none
        /\ \/ IdsOf(CachedArtifacts.skill_profiles) # IdsOf(raw_jobs)
           \/ MentionIds(CachedArtifacts.mentions) # IdsOf(raw_jobs))
       => /\ ~FreshArtifacts.raised
          /\ loaded'.skill_profiles = FreshArtifacts.skill_profiles
          /\ loaded'.nlp_mentions = FreshArtifacts.mentions]_vars

\* the requirement columns of the postings a run returned
ProfileInUse(jobs) ==
    {[system_job_id |-> jobs[i].system_job_id,
      education_display |-> jobs[i].education_display,
      education_source |-> jobs[i].education_source,
      experience_display |-> jobs[i].experience_display,
      experience_source |-> jobs[i].experience_source] : i \in DOMAIN jobs}

CachedRequirements == load_cached_requirements_profile(requirements_file)

ReuseRequirements ==
    /\ ~CachedRequirements.is_none
    /\ IdsOf(CachedRequirements.rows) = IdsOf(raw_jobs)

\* C2: a run of load_data keeps the cached requirements profile (file
\* untouched, its rows the ones in use) exactly when the cache holds rows and
\* its posting ids are the current ones; otherwise it writes and uses the
\* profile inferred from all current postings; either way the ids of the
\* profile in use and of the file are the ids of the current postings
C2_RequirementsCacheByIdSet ==
    [][LoadRun =>
        /\ ReuseRequirements =>
              /\ requirements_file' = requirements_file
              /\ lpc' = "done" => ProfileInUse(loaded'.jobs_clean) = Range(CachedRequirements.rows)
        /\ ~ReuseRequirements =>
              /\ requirements_file' = to_csv(infer_education_and_experience(raw_jobs))
              /\ lpc' = "done" => ProfileInUse(loaded'.jobs_clean)
                                     = Range(infer_education_and_experience(raw_jobs))
        /\ IdsOf(fillna(read_csv(requirements_file'))) = IdsOf(raw_jobs)
        /\ lpc' = "done" => {r.system_job_id : r \in ProfileInUse(loaded'.jobs_clean)}
                               = IdsOf(raw_jobs)]_vars

\* a run has reused the cached profile: the ids of the postings are those of
\* the cache, their content has changed, and the profile in use is the cached
\* one, not the one the current postings would give
C2_Witness ==
    /\ lpc = "done"
    /\ raw_jobs # <<>>
    /\ ProfileInUse(loaded.jobs_clean) # Range(infer_education_and_experience(raw_jobs))
    /\ ProfileInUse(loaded.jobs_clean) = Range(fillna(read_csv(requirements_file)))


(***************************************************************************)
(* Properties of build_skill_catalog (SpecCatalog)                         *)
(***************************************************************************)
\* the labels of the feed as the catalog builder normalises them
NormalizedLabels ==
    IF HasColumn(processed, "taxonomy_skill")
    THEN [i \in DOMAIN processed |-> normalize_text(processed[i].taxonomy_skill)]
    ELSE <<>>

\* C15: every skill of the catalog is longer than two characters and occurs
\* at least min_frequency times among the normalised labels of the feed; the
\* catalog has at most max_skills entries and none twice
C15_CatalogInvariant ==
    upc = "done" =>
        /\ \A i \in DOMAIN catalog :
              /\ StrLen(catalog[i]) > 2
              /\ Count(NormalizedLabels, catalog[i]) >= arg_min_frequency
        /\ Len(catalog) <= arg_max_skills
        /\ \A i, j \in DOMAIN catalog : i # j => catalog[i] # catalog[j]

\* a catalog that the cap cut short, from a feed that also has a label too
\* short and a label too rare
C15_Witness ==
    /\ upc = "done"
    /\ catalog # <<>>
    /\ \E l \in Range(NormalizedLabels) :
          /\ StrLen(l) > 2
          /\ Count(NormalizedLabels, l) >= arg_min_frequency
          /\ l \notin Range(catalog)
    /\ \E l \in Range(NormalizedLabels) : l # <<>> /\ StrLen(l) <= 2
    /\ \E l \in Range(NormalizedLabels) :
          StrLen(l) > 2 /\ Count(NormalizedLabels, l) < arg_min_frequency


(***************************************************************************)
(* Properties of build_skill_profiles_from_mentions (SpecProfiles)         *)
(***************************************************************************)
\* the skills mentioned for a posting
SkillsOf(id) == {mentions[i].taxonomy_skill : i \in {j \in DOMAIN mentions : mentions[j].research_id = id}}

\* how often a phrase occurs in a text, as a run of consecutive words
Occurrences(text, phrase) ==
    Cardinality({at \in 1..(Len(text) - Len(phrase) + 1) :
                    \A w \in DOMAIN phrase : text[at + w - 1] = phrase[w]})

\* C16 as stated: every skill kept for a posting occurs exactly once in the
\* profile text of the posting
C16_SkillOnceInText ==
    upc = "done" =>
        \A p \in DOMAIN built_profiles :
            \A skill \in SkillsOf(built_profiles[p].system_job_id) :
                Occurrences(built_profiles[p].skill_text, skill) = 1

\* C16: there is one profile per posting with mentions, and its text is the
\* posting's distinct skills joined, each skill joined exactly once
C16_SkillJoinedOnce ==
    upc = "done" =>
        /\ {built_profiles[p].system_job_id : p \in DOMAIN built_profiles} = MentionIds(mentions)
        /\ \A p, q \in DOMAIN built_profiles :
              p # q => built_profiles[p].system_job_id # built_profiles[q].system_job_id
        /\ \A p \in DOMAIN built_profiles :
              LET skills == SkillsOf(built_profiles[p].system_job_id)
              IN \E items \in [1..Cardinality(skills) -> skills] :
                    /\ Range(items) = skills
                    /\ built_profiles[p].skill_text = Flatten(items)

\* a posting mentioned with the same skill twice and with another skill
C16_Witness ==
    /\ upc = "done"
    /\ \E i, j, k \in DOMAIN mentions :
          /\ i # j
          /\ MentionKey(mentions[i]) = MentionKey(mentions[j])
          /\ mentions[k].research_id = mentions[i].research_id
          /\ mentions[k].taxonomy_skill # mentions[i].taxonomy_skill
    /\ built_profiles # <<>>


(***************************************************************************)
(* Properties of compute_skill_gap (SpecGap)                               *)
(***************************************************************************)
\* the mention table has the columns compute_skill_gap needs
GapColumnsPresent ==
    /\ HasColumn(mentions, "research_id")
    /\ HasColumn(mentions, "taxonomy_skill")
    /\ HasColumn(mentions, "nlp_score") \/ HasColumn(mentions, "correlation")

GapScore(row) == IF "nlp_score" \in DOMAIN row THEN row.nlp_score ELSE row.correlation

\* the skills mentioned for the posting asked about, and the best score of each
GapSkills ==
    IF GapColumnsPresent
    THEN {mentions[i].taxonomy_skill : i \in {j \in DOMAIN mentions : mentions[j].research_id = arg_job_id}}
    ELSE {}

BestScore(skill) ==
    CHOOSE best \in {GapScore(mentions[i]) : i \in {j \in DOMAIN mentions :
                        mentions[j].research_id = arg_job_id /\ mentions[j].taxonomy_skill = skill}} :
        \A i \in DOMAIN mentions :
            (mentions[i].research_id = arg_job_id /\ mentions[i].taxonomy_skill = skill)
                => GapScore(mentions[i]) <= best

\* the sets of skills that are a deduplicated top-limit selection: limit of the
\* posting's skills (all, if there are fewer), none beaten by a skill left out
TopLimitSets ==
    {top \in SUBSET GapSkills :
        /\ Cardinality(top) = Min(limit, Cardinality(GapSkills))
        /\ \A inside \in top : \A outside \in GapSkills \ top :
              BestScore(inside) >= BestScore(outside)}

\* C17: matched and missing have no skill in common, neither lists a skill
\* twice, and together they are a deduplicated top-limit skill set of the
\* posting
C17_GapPartition ==
    upc = "done" =>
        /\ Range(skill_gap.matched) \cap Range(skill_gap.missing) = {}
        /\ Range(skill_gap.matched) \cup Range(skill_gap.missing) \in TopLimitSets
        /\ Injective(skill_gap.matched) /\ Injective(skill_gap.missing)

\* a call that found a matched and a missing skill and left a third skill of
\* the posting out because of the limit
C17_Witness ==
    /\ upc = "done"
    /\ skill_gap.matched # <<>>
    /\ skill_gap.missing # <<>>
    /\ Cardinality(GapSkills) > limit

(***************************************************************************)
(* Properties of infer_education_and_experience                             *)
(***************************************************************************)
\* a structured field holds a value: not empty, not blank, not a sentinel
Usable(raw) == Strip(raw) # <<>> /\ LowerText(Strip(raw)) \notin NullSentinels

SourceText(row) == Col(row, "title") \o Col(row, "description")

EducationMatch(text) ==
    Range(text) \cap UNION {EDUCATION_PATTERNS[k].words : k \in DOMAIN EDUCATION_PATTERNS} # {}

ExperienceMatch(text) == Range(text) \cap (EntryLevelPhrases \cup ExperiencePhrases) # {}

\* C18 as stated: a structured field that is not empty and not a sentinel is
\* the display value, character for character, with source "dataset"
C18_StructuredVerbatim ==
    upc = "done" =>
        \A i \in DOMAIN postings :
            /\ LET raw == Col(postings[i], "requirements_min_education")
               IN (raw # <<>> /\ LowerText(raw) \notin NullSentinels) =>
                     /\ inferred[i].education_display = raw
                     /\ inferred[i].education_source = "dataset"
            /\ LET raw == Col(postings[i], "requirements_experience")
               IN (raw # <<>> /\ LowerText(raw) \notin NullSentinels) =>
                     /\ inferred[i].experience_display = raw
                     /\ inferred[i].experience_source = "dataset"

\* C18: a structured education or experience field that, with the blanks
\* around it removed, is not empty and not a sentinel in any case of letters
\* is the display value in that trimmed form, with source "dataset", whatever
\* the title and the description say
C18_StructuredTrimmed ==
    upc = "done" =>
        \A i \in DOMAIN postings :
            /\ Usable(Col(postings[i], "requirements_min_education")) =>
                  /\ inferred[i].education_display =
                        Strip(Col(postings[i], "requirements_min_education"))
                  /\ inferred[i].education_source = "dataset"
            /\ Usable(Col(postings[i], "requirements_experience")) =>
                  /\ inferred[i].experience_display =
                        Strip(Col(postings[i], "requirements_experience"))
                  /\ inferred[i].experience_source = "dataset"

C18_Witness ==
    /\ upc = "done"
    /\ \E i \in DOMAIN postings :
          /\ Col(postings[i], "requirements_min_education") = <<Blank, 27, Blank>>
          /\ Col(postings[i], "requirements_experience") = <<34, Blank>>
          /\ EducationMatch(SourceText(postings[i]))
          /\ ExperienceMatch(SourceText(postings[i]))
          /\ inferred[i].education_display = <<27>>
          /\ inferred[i].experience_display = <<34>>
          /\ inferred[i].education_source = "dataset"

\* the label a source must carry, given the structured field and whether the
\* text matches, with the name given to the label of a value found in the text
ExpectedSource(raw, match, label) ==
    IF Usable(raw) THEN "dataset" ELSE IF match THEN label ELSE "not_specified"

SourcesAre(label) ==
    upc = "done" =>
        \A i \in DOMAIN postings :
            /\ inferred[i].education_source =
                  ExpectedSource(Col(postings[i], "requirements_min_education"),
                                 EducationMatch(SourceText(postings[i])), label)
            /\ inferred[i].experience_source =
                  ExpectedSource(Col(postings[i], "requirements_experience"),
                                 ExperienceMatch(SourceText(postings[i])), label)

C20_NormalizeIdempotent ==
    upc = "done" /\ normal_forms # <<>> => normal_forms[2] = normal_forms[1]

C20_Witness ==
    /\ upc = "done"
    /\ normal_forms # <<>>
    /\ {9, 11, 13} \subseteq Range(arg_value)
    /\ normal_forms[1] = <<1, 1, 2>>

(***************************************************************************)
(* The cut to top_k in extract_skill_mentions_from_text (SpecExtract)       *)
(***************************************************************************)
\* the mentions the call would have returned had top_k been too large to cut
\* anything: every skill of a posting with similarity >= min_similarity
Survivors ==
    extract_skill_mentions_from_text(postings, processed, Len(SkillCatalog) + 1,
                                     min_similarity, batch_size, tie_rank).rows

SurvivorsOf(id) == {m \in Range(Survivors) : m.research_id = id}

KeptOf(id) == {m \in Range(mentions) : m.research_id = id}

\* C21: when more than top_k skills of a posting have similarity >=
\* min_similarity, exactly top_k of them are kept, each kept one is one of the
\* survivors with its score, and no dropped skill has a score strictly greater
\* than a kept one
C21_TopKHighest ==
    xpc = "done" =>
        \A j \in DOMAIN postings :
            LET id == Col(postings[j], "system_job_id")
            IN Cardinality(SurvivorsOf(id)) > top_k =>
                  /\ Cardinality({i \in DOMAIN mentions : mentions[i].research_id = id}) = top_k
                  /\ Cardinality(KeptOf(id)) = top_k
                  /\ KeptOf(id) \subseteq SurvivorsOf(id)
                  /\ \A d \in SurvivorsOf(id) \ KeptOf(id) :
                        \A m \in KeptOf(id) : d.nlp_score <= m.nlp_score

\* a posting with more survivors than top_k, one of the dropped skills having
\* a score strictly below the kept ones
C21_Witness ==
    /\ xpc = "done"
    /\ \E j \in DOMAIN postings :
          LET id == Col(postings[j], "system_job_id")
          IN /\ Cardinality(SurvivorsOf(id)) > top_k
             /\ KeptOf(id) # {}
             /\ \E d \in SurvivorsOf(id) \ KeptOf(id) :
                   \A m \in KeptOf(id) : d.nlp_score < m.nlp_score

(***************************************************************************)
(* Order of the catalog (SpecCatalog)                                       *)
(***************************************************************************)
\* the labels that can enter the catalog, and where each is first met
Eligible ==
    {l \in Range(NormalizedLabels) :
        StrLen(l) > 2 /\ Count(NormalizedLabels, l) >= arg_min_frequency}

FirstMet(l) == CHOOSE i \in DOMAIN NormalizedLabels :
                  /\ NormalizedLabels[i] = l
                  /\ \A j \in DOMAIN NormalizedLabels : NormalizedLabels[j] = l => i <= j

\* label a comes before label b: more frequent, or as frequent and met first
ComesBefore(a, b) ==
    \/ Count(NormalizedLabels, a) > Count(NormalizedLabels, b)
    \/ Count(NormalizedLabels, a) = Count(NormalizedLabels, b) /\ FirstMet(a) < FirstMet(b)

\* C22: the catalog is in descending order of frequency and holds the
\* max_skills most frequent eligible labels; among labels of equal frequency
\* the one met first in the feed comes first and is retained first
C22_FrequencyThenEncounter ==
    upc = "done" =>
        /\ Len(catalog) = Min(arg_max_skills, Cardinality(Eligible))
        /\ Range(catalog) \subseteq Eligible
        /\ \A i, j \in DOMAIN catalog : i < j => ComesBefore(catalog[i], catalog[j])
        /\ \A l \in Eligible \ Range(catalog) :
              \A i \in DOMAIN catalog : ComesBefore(catalog[i], l)

(***************************************************************************)
(* Order of the skills in a profile (SpecProfiles)                          *)
(***************************************************************************)
\* the highest confidence with which a skill is mentioned for a posting
BestConfidence(id, skill) ==
    CHOOSE c \in {mentions[i].nlp_score : i \in DOMAIN mentions} :
        /\ \E i \in DOMAIN mentions :
              MentionKey(mentions[i]) = <<id, skill>> /\ mentions[i].nlp_score = c
        /\ \A i \in DOMAIN mentions :
              MentionKey(mentions[i]) = <<id, skill>> => mentions[i].nlp_score <= c

\* C23: exactly one profile per posting id with at least one mention and none
\* for other postings; the text of a profile is the posting's distinct skills
\* joined in descending order of the highest confidence of each skill
C23_ProfilePerPostingByConfidence ==
    upc = "done" =>
        /\ {built_profiles[p].system_job_id : p \in DOMAIN built_profiles} = MentionIds(mentions)
        /\ Len(built_profiles) = Cardinality(MentionIds(mentions))
        /\ \A p \in DOMAIN built_profiles :
              LET id == built_profiles[p].system_job_id
                  skills == SkillsOf(id)
              IN \E items \in [1..Cardinality(skills) -> skills] :
                    /\ Range(items) = skills
                    /\ \A i, j \in DOMAIN items :
                          i < j => BestConfidence(id, items[i]) >= BestConfidence(id, items[j])
                    /\ built_profiles[p].skill_text = Flatten(items)

\* a posting whose skill is mentioned twice, the lower confidence first in the
\* table, and which has another skill of lower confidence; a posting without
\* mentions
C23_Witness ==
    /\ upc = "done"
    /\ MentionIds(mentions) # PostingIds
    /\ \E i, j, k \in DOMAIN mentions :
          /\ i < j
          /\ MentionKey(mentions[i]) = MentionKey(mentions[j])
          /\ mentions[i].nlp_score < mentions[j].nlp_score
          /\ mentions[k].research_id = mentions[i].research_id
          /\ mentions[k].taxonomy_skill # mentions[i].taxonomy_skill
          /\ mentions[k].nlp_score < mentions[j].nlp_score
          /\ \E p \in DOMAIN built_profiles :
                built_profiles[p].skill_text =
                    mentions[i].taxonomy_skill \o mentions[k].taxonomy_skill

(***************************************************************************)
(* Classification in compute_skill_gap (SpecGap)                            *)
(***************************************************************************)
\* the rule with the text normalizer: a token of the normalised skill longer
\* than three characters is a substring of the normalised query text
MatchesNormalized(skill, user_text) ==
    \E t \in DOMAIN normalize_text(skill) :
        /\ TokenLen(normalize_text(skill)[t]) > 3
        /\ \E i \in DOMAIN normalize_text(user_text) :
              Substring(normalize_text(skill)[t], normalize_text(user_text)[i])

\* C24: a retained skill is matched if and only if a token of length > 3 of
\* the normalised skill occurs as a substring of the normalised query text,
\* and is missing otherwise
C24_MatchedIffNormalizedToken ==
    upc = "done" =>
        /\ \A skill \in Range(skill_gap.matched) : MatchesNormalized(skill, user_input)
        /\ \A skill \in Range(skill_gap.missing) : ~MatchesNormalized(skill, user_input)

(***************************************************************************)
(* Order of the lists of compute_skill_gap (SpecGap)                        *)
(***************************************************************************)
\* a list of skills in descending order of the best score of each
ByBestScore(skills) ==
    \A i, j \in DOMAIN skills : i < j => BestScore(skills[i]) >= BestScore(skills[j])

\* C25: the lists hold skills of the target posting, limit of them (all, if
\* there are fewer), none with a best score below that of a skill left out,
\* and the matched list and the missing list are each in descending order of
\* the skills' best scores
C25_TopLimitByScore ==
    upc = "done" =>
        /\ Len(skill_gap.matched) + Len(skill_gap.missing) = Min(limit, Cardinality(GapSkills))
        /\ \A skill \in Range(skill_gap.matched) \cup Range(skill_gap.missing) :
              /\ skill \in GapSkills
              /\ \A outside \in GapSkills \ (Range(skill_gap.matched) \cup Range(skill_gap.missing)) :
                    BestScore(skill) >= BestScore(outside)
        /\ ByBestScore(skill_gap.matched)
        /\ ByBestScore(skill_gap.missing)

\* two matched skills of different best scores, the better one mentioned
\* twice and first with its lower score
C25_Witness ==
    /\ upc = "done"
    /\ Len(skill_gap.matched) = 2
    /\ BestScore(skill_gap.matched[1]) > BestScore(skill_gap.matched[2])
    /\ \E i, j \in DOMAIN mentions :
          /\ i < j
          /\ mentions[i].research_id = arg_job_id /\ mentions[j].research_id = arg_job_id
          /\ mentions[i].taxonomy_skill = skill_gap.matched[1]
          /\ mentions[j].taxonomy_skill = skill_gap.matched[1]
          /\ GapScore(mentions[i]) < GapScore(mentions[j])

(***************************************************************************)
(* Skills of short tokens in compute_skill_gap (SpecGap)                    *)
(***************************************************************************)
\* none of the whitespace-separated tokens of the skill is longer than 3
OnlyShortTokens(skill) == \A t \in DOMAIN skill : TokenLen(skill[t]) <= 3

\* C30: a retained skill none of whose tokens is longer than 3 characters is
\* in the missing list and not in the matched list, whatever the query text
C30_ShortSkillsMissing ==
    upc = "done" =>
        \A skill \in Range(skill_gap.matched) \cup Range(skill_gap.missing) :
            OnlyShortTokens(skill) =>
                skill \in Range(skill_gap.missing) /\ skill \notin Range(skill_gap.matched)

\* the query text holds the short skill word for word and the skill is missing
C30_Witness ==
    /\ upc = "done"
    /\ \E skill \in Range(skill_gap.missing) :
          /\ OnlyShortTokens(skill)
          /\ skill # <<>>
          /\ Occurrences(user_input, skill) > 0

(***************************************************************************)
(* Priority of the education patterns (SpecInfer)                           *)
(***************************************************************************)
\* the patterns that match a text, by their place in the list: 1 doctorate,
\* 2 master's, 3 bachelor's, 4 associate, 5 high school or GED, 6 certification
MatchingPatterns(text) ==
    {k \in DOMAIN EDUCATION_PATTERNS : Range(text) \cap EDUCATION_PATTERNS[k].words # {}}

\* C26: without a structured education value, the education shown is the label
\* of the matching pattern of highest priority, wherever in the text the
\* terms stand, and nothing when no pattern matches
C26_HighestPriorityLabel ==
    upc = "done" =>
        \A i \in DOMAIN postings :
            ~Usable(Col(postings[i], "requirements_min_education")) =>
                LET hits == MatchingPatterns(SourceText(postings[i]))
                IN /\ hits = {} => inferred[i].education_display = <<>>
                   /\ hits # {} =>
                         \E k \in hits :
                            /\ inferred[i].education_display = EDUCATION_PATTERNS[k].label
                            /\ \A m \in hits : k <= m

\* a text in which a term of lower priority stands before one of higher
\* priority
C26_Witness ==
    /\ upc = "done"
    /\ \E i \in DOMAIN postings :
          /\ ~Usable(Col(postings[i], "requirements_min_education"))
          /\ SourceText(postings[i]) = <<26, 23>>
          /\ inferred[i].education_display = <<123>>
          /\ inferred[i].education_source = "nlp_inferred"

(***************************************************************************)
(* The fallback of _generate_nlp_structured_data (SpecGenerate)             *)
(***************************************************************************)
\* what extract_skill_mentions_from_text returned to the call
TextMentions ==
    extract_skill_mentions_from_text(postings, processed, DefaultTopK, DefaultMinSimilarity,
                                     DefaultBatchSize, tie_rank).rows

\* one row per taxonomy record: posting id, skill as written, correlation
TaxonomyRecords ==
    [i \in DOMAIN processed |-> [research_id |-> processed[i].research_id,
                                 taxonomy_skill |-> processed[i].taxonomy_skill,
                                 nlp_score |-> processed[i].correlation]]

\* C27: a call that returns has the taxonomy records as its mentions if and
\* only if the extraction returned no mention, and the mentions of the
\* extraction, unchanged, otherwise; the mentions are persisted, and the
\* profiles returned and persisted are built from them
C27_FallbackIffNoTextMentions ==
    upc = "done" =>
        /\ TextMentions = <<>> => mentions = TaxonomyRecords
        /\ TextMentions # <<>> => mentions = TextMentions /\ mentions # TaxonomyRecords
        /\ mentions_file = to_csv(mentions)
        /\ built_profiles = build_skill_profiles_from_mentions(mentions)
        /\ profiles_file = to_csv(built_profiles)

\* the extraction found nothing in the postings and the records of the feed
\* became the mentions
C27_Witness ==
    /\ upc = "done"
    /\ postings # <<>>
    /\ TextMentions = <<>>
    /\ mentions # <<>>
    /\ mentions = TaxonomyRecords
    /\ built_profiles # <<>>
    /\ mentions_file = to_csv(TaxonomyRecords)

(***************************************************************************)
(* The profiles argument next to a prebuilt index (SpecPrebuilt)            *)
(***************************************************************************)
\* collections of profiles to put in the place of the one that was passed
OtherProfiles ==
    {ProfileRows(t) : t \in [PostingIds -> {<<2>>}]}
    \cup {<<[system_job_id |-> 1, skill_text |-> <<1, 2>>]>>}

\* C28: with a prebuilt index, the call with any other non-empty collection of
\* profiles in the place of a non-empty skill_profiles returns the same rows:
\* the postings and scores are those of the index
C28_ProfilesArgumentUnused ==
    (pc = "done" /\ matching_index # None /\ skill_profiles # <<>>) =>
        /\ \A other \in OtherProfiles :
              find_matching_jobs(user_input, jobs_clean, other, top_n, matching_index,
                                 tie_rank).rows = results
        /\ results = RankJobs(user_input, jobs_clean, top_n, matching_index.vectorizer,
                              matching_index.matrix, matching_index.job_ids, tie_rank)

\* the profiles passed are not those of the index: a posting without a profile
\* is returned with the score it has in the index
C28_Witness ==
    /\ pc = "done" /\ matching_index # None /\ skill_profiles # <<>>
    /\ matching_index # build_matching_index(skill_profiles)
    /\ \E i \in DOMAIN results :
          /\ results[i].match_score > 0
          /\ \A p \in DOMAIN skill_profiles :
                skill_profiles[p].system_job_id # results[i].system_job_id

(***************************************************************************)
(* Properties of the analytics logger (SpecAnalytics)                       *)
(***************************************************************************)
\* the table and the file hold the same events in the same order
SameEvents ==
    /\ Len(sqlite_db.rows) = Len(csv_file.rows)
    /\ \A i \in DOMAIN sqlite_db.rows :
          /\ sqlite_db.rows[i].id = i
          /\ sqlite_db.rows[i].event_type = csv_file.rows[i].event_type
          /\ sqlite_db.rows[i].title = csv_file.rows[i].title

\* a call that succeeds appends one row to both, any other call and
\* initialize_analytics_logger leave the rows of both as they are
AppendsToBothOrNeither ==
    /\ apc' = "ok" =>
          /\ Len(sqlite_db'.rows) = Len(sqlite_db.rows) + 1
          /\ Len(csv_file'.rows) = Len(csv_file.rows) + 1
          /\ \A i \in DOMAIN sqlite_db.rows : sqlite_db'.rows[i] = sqlite_db.rows[i]
          /\ \A i \in DOMAIN csv_file.rows : csv_file'.rows[i] = csv_file.rows[i]
    /\ apc' # "ok" =>
          /\ sqlite_db'.rows = sqlite_db.rows
          /\ csv_file'.rows = csv_file.rows

\* C29: from absent artifacts and under sequential calls, the events table
\* and the CSV file always hold the same number of events in the same order;
\* a successful call appends exactly one row to both, a call whose count or
\* score cannot be converted appends to neither, and
\* initialize_analytics_logger removes and rewrites nothing
C29_TableAndFileAgree == []SameEvents /\ [][AppendsToBothOrNeither]_vars

\* two events logged, then a call that failed on its count
C29_Witness ==
    /\ Len(sqlite_db.rows) = 2
    /\ Len(csv_file.rows) = 2
    /\ csv_file.rows[1].title # csv_file.rows[2].title
    /\ sqlite_db.rows[2].results_count = Number(3)
    /\ apc = "ValueError"

====
